---- MODULE Spec2Model ----
(***************************************************************************)
(* A model of the vision MCP server's provider-adapter layer:              *)
(*   - the Thinking-Content Filter (thinking-filter.ts, thinking-          *)
(*     extractors.ts), computed character by character;                    *)
(*   - the response parsers of the vendor adapters;                        *)
(*   - the retry/timeout engine BaseVisionModelAdapter.withRetry and the   *)
(*     vendor calls it wraps.                                              *)
(* A text is a sequence of one-character strings.                          *)
(***************************************************************************)
EXTENDS Integers, Sequences, FiniteSets, TLC

VARIABLES
    \* ---- the filter and the response parsers: one pure operation applied ----
    fpc,        \* "ready": the input has arrived; "done": the operation returned
    fin,        \* the input: a text, a response envelope or a vendor payload
    fout,       \* what the operation returned
    \* ---- the adapter ----
    vendor,     \* the adapter's vendor id (this.config.type)
    cfgMaxRetries, \* this.config.maxRetries (NotConfigured when absent)
    \* ---- one withRetry call on the adapter ----
    pc,         \* "idle" | "calling" | "backoff" | "returned" | "thrown"
    attempt,    \* the loop variable of withRetry
    maxRetries, \* the local maxRetries of withRetry
    lastError,  \* the local lastError of withRetry
    calls,      \* how many times the operation was invoked
    waits,      \* the backoff waits made, in order (ms)
    failures,   \* how many invocations of the operation failed
    event,      \* how the latest invocation of the operation ended
    outcome,    \* how withRetry settled: a value returned or an error thrown
    \* ---- the process ----
    reqs,       \* the withRetry calls in flight on the adapter: their locals
    providers,  \* the Map of the provider registry: vendor id -> definition
    firstRegistered, \* history: the definition first registered under each id
    toolInstance,    \* the module variable toolInstance of getVisionTool
    constructed,     \* history: the VisionTools whose constructor returned
    handed,     \* history: what getVisionTool returned and analyze used
    invoked     \* history: the analyzeWithResponse calls the handler made

fvars == <<fpc, fin, fout>>
rvars == <<pc, attempt, maxRetries, lastError, calls, waits, failures, event,
          outcome>>
svars == <<reqs, providers, firstRegistered, toolInstance, constructed, handed,
          invoked>>
vars == <<fvars, vendor, cfgMaxRetries, rvars, svars>>

(***************************************************************************)
(* Bounds of the model.                                                    *)
(***************************************************************************)
MaxFrags == 3        \* fragments in a generated answer text
MaxCfgRetries == 4   \* largest configured maxRetries explored
MaxParams == 2       \* query parameters in a generated URL
NumRequests == 2     \* withRetry calls in flight on one adapter
MaxCalls == 4        \* getVisionTool and analyze calls that got a tool
MaxBytes == 3        \* bytes of a local file
MaxShortKey == 9     \* length of the API keys explored in full
MaxTicks == 7        \* ticks of the clock of one Gemini attempt

(***************************************************************************)
(* Characters and texts.                                                   *)
(***************************************************************************)
NL == "\n"
\* The backquote character.
Backtick == "bq"
SP == " "
Empty == <<>>
\* undefined; told from every text, whose elements are single characters.
Undefined == <<"undefined">>

\* The line terminators "." does not match and "^"/"$" (m flag) anchor at.
LineTerminators == {NL}
\* The characters \s matches.
WhiteSpace == {SP, NL}

ToLower ==
    ("A" :> "a") @@ ("B" :> "b") @@ ("C" :> "c") @@ ("D" :> "d") @@ ("E"
    :> "e") @@ ("F" :> "f") @@ ("G" :> "g") @@ ("H" :> "h") @@ ("I" :>
    "i") @@ ("J" :> "j") @@ ("K" :> "k") @@ ("L" :> "l") @@ ("M" :> "m")
    @@ ("N" :> "n") @@ ("O" :> "o") @@ ("P" :> "p") @@ ("Q" :> "q") @@
    ("R" :> "r") @@ ("S" :> "s") @@ ("T" :> "t") @@ ("U" :> "u") @@ ("V"
    :> "v") @@ ("W" :> "w") @@ ("X" :> "x") @@ ("Y" :> "y") @@ ("Z" :>
    "z")

\* The i flag: a pattern character (written in lower case) against a text character.
LowerCase(c) == IF c \in DOMAIN ToLower THEN ToLower[c] ELSE c

\* pat occurs in text at position i, ignoring case.
IsPrefixAt(pat, text, i) ==
    /\ i >= 1
    /\ i + Len(pat) - 1 <= Len(text)
    /\ \A k \in 1..Len(pat) : LowerCase(text[i + k - 1]) = pat[k]

\* The length of the first alternative of alts that occurs at i, or 0.
RECURSIVE FirstAltAt(_, _, _, _)
FirstAltAt(alts, text, i, n) ==
    IF n > Len(alts) THEN 0
    ELSE IF IsPrefixAt(alts[n], text, i) THEN Len(alts[n])
    ELSE FirstAltAt(alts, text, i, n + 1)

\* The least element of a non-empty set of numbers.
Min(S) == CHOOSE x \in S : \A y \in S : x <= y
Max(S) == CHOOSE x \in S : \A y \in S : x >= y

\* The first position >= i at which pat occurs, or 0.
FindFrom(pat, text, i) ==
    LET S == {k \in i..(Len(text) - Len(pat) + 1) : IsPrefixAt(pat, text, k)}
    IN  IF S = {} THEN 0 ELSE Min(S)

\* The first position >= i that holds no white space (Len + 1 when none).
SkipWs(text, i) ==
    LET S == {k \in i..Len(text) : text[k] \notin WhiteSpace}
    IN  IF S = {} THEN Len(text) + 1 ELSE Min(S)

\* The first position >= i that holds a line terminator (Len + 1 when none).
EndOfLine(text, i) ==
    LET S == {k \in i..Len(text) : text[k] \in LineTerminators}
    IN  IF S = {} THEN Len(text) + 1 ELSE Min(S)

\* "^" with the m flag.
AtLineStart(text, i) == i = 1 \/ text[i - 1] \in LineTerminators

(***************************************************************************)
(* THINKING_PATTERNS.  A pattern is a record:                              *)
(*   kind "block": one of opens, then lazily anything, then close;         *)
(*   kind "line" : ^\s*(label):.*$  with the m flag;                       *)
(*   kind "lit"  : one of opens.                                           *)
(* All carry the g and i flags.                                            *)
(***************************************************************************)
TagOpen == <<"<", "t", "h", "i", "n", "k", "i", "n", "g", ">">>
TagClose == <<"<", "/", "t", "h", "i", "n", "k", "i", "n", "g", ">">>
AnalysisTag == <<"<", "<", "a", "n", "a", "l", "y", "s", "i", "s", ">", ">">>
LabelReasoning == <<"r", "e", "a", "s", "o", "n", "i", "n", "g">>
LabelThoughts == <<"t", "h", "o", "u", "g", "h", "t", "s">>
LabelAnalysis == <<"a", "n", "a", "l", "y", "s", "i", "s">>
Fence == <<Backtick, Backtick, Backtick>>
FenceThinking == Fence \o <<"t", "h", "i", "n", "k", "i", "n", "g">>
FenceReasoning == Fence \o LabelReasoning
BracketOpen == <<"[", "t", "h", "i", "n", "k", "i", "n", "g", "]">>
BracketClose == <<"[", "/", "t", "h", "i", "n", "k", "i", "n", "g", "]">>

THINKING_PATTERNS == <<
    [kind |-> "block", opens |-> <<TagOpen>>, close |-> TagClose],
    [kind |-> "block", opens |-> <<AnalysisTag>>, close |-> AnalysisTag],
    [kind |-> "line", opens |-> <<LabelReasoning, LabelThoughts, LabelAnalysis>>, close |-> <<":">>],
    [kind |-> "block", opens |-> <<FenceThinking, FenceReasoning>>, close |-> Fence],
    [kind |-> "block", opens |-> <<BracketOpen>>, close |-> BracketClose],
    [kind |-> "lit", opens |-> <<TagOpen, TagClose, AnalysisTag>>, close |-> Empty] >>

\* The position just after the match of pattern p that starts at i, or 0 when
\* p does not match at i.
MatchEnd(p, text, i) ==
    CASE p.kind = "block" ->
           LET n == FirstAltAt(p.opens, text, i, 1)
           IN  IF n = 0 THEN 0
               ELSE LET j == FindFrom(p.close, text, i + n)
                    IN  IF j = 0 THEN 0 ELSE j + Len(p.close)
      [] p.kind = "line" ->
           IF ~AtLineStart(text, i) THEN 0
           ELSE LET j == SkipWs(text, i)
                    n == FirstAltAt(p.opens, text, j, 1)
                IN  IF n = 0 \/ ~IsPrefixAt(p.close, text, j + n) THEN 0
                    ELSE EndOfLine(text, j + n + Len(p.close))
      [] p.kind = "lit" ->
           LET n == FirstAltAt(p.opens, text, i, 1)
           IN  IF n = 0 THEN 0 ELSE i + n

\* Some substring of text matches p.
HasMatch(p, text) == \E i \in 1..Len(text) : MatchEnd(p, text, i) > 0

\* String.prototype.replace(p, "") with the g flag: the matches are found left
\* to right in the text as it was, each search resuming where the last match
\* ended, and removed.
RECURSIVE ReplaceFrom(_, _, _)
ReplaceFrom(p, text, i) ==
    LET S == {k \in i..Len(text) : MatchEnd(p, text, k) > 0}
    IN  IF S = {} THEN SubSeq(text, i, Len(text))
        ELSE LET k == Min(S)
             IN  SubSeq(text, i, k - 1) \o ReplaceFrom(p, text, MatchEnd(p, text, k))

ReplaceAll(p, text) == ReplaceFrom(p, text, 1)

\* One pattern of the loop of stripThinkingPatterns: replace, and replace again
\* while the text got shorter.
RECURSIVE ApplyPattern(_, _)
ApplyPattern(p, text) ==
    LET next == ReplaceAll(p, text)
    IN  IF Len(next) < Len(text) THEN ApplyPattern(p, next) ELSE next

\* The for loop over THINKING_PATTERNS, from pattern n on.
RECURSIVE ApplyPatternsFrom(_, _)
ApplyPatternsFrom(n, text) ==
    IF n > Len(THINKING_PATTERNS) THEN text
    ELSE ApplyPatternsFrom(n + 1, ApplyPattern(THINKING_PATTERNS[n], text))

\* String.prototype.trim.
Trim(text) ==
    LET S == {k \in 1..Len(text) : text[k] \notin WhiteSpace}
    IN  IF S = {} THEN Empty ELSE SubSeq(text, Min(S), Max(S))

\* The position just after the match of /\n\s*\n\s*\n/ that starts at i, or 0:
\* a newline followed by a run of white space holding two more newlines is
\* matched up to the last newline of the run.
BlankLinesEnd(text, i) ==
    IF text[i] # NL THEN 0
    ELSE LET N == {k \in (i + 1)..(SkipWs(text, i + 1) - 1) : text[k] = NL}
         IN  IF Cardinality(N) >= 2 THEN Max(N) + 1 ELSE 0

\* replace(/\n\s*\n\s*\n/g, "\n\n").
RECURSIVE CollapseFrom(_, _)
CollapseFrom(text, i) ==
    LET S == {k \in i..Len(text) : BlankLinesEnd(text, k) > 0}
    IN  IF S = {} THEN SubSeq(text, i, Len(text))
        ELSE LET k == Min(S)
             IN  SubSeq(text, i, k - 1) \o <<NL, NL>>
                   \o CollapseFrom(text, BlankLinesEnd(text, k))

CollapseBlankLines(text) == CollapseFrom(text, 1)

\* stripThinkingPatterns without the trim of its result.
stripThinkingUntrimmed(text) ==
    IF text = Undefined \/ text = Empty THEN Empty
    ELSE CollapseBlankLines(ApplyPatternsFrom(1, text))

\* stripThinkingPatterns (text is Undefined for a missing or non-string value).
stripThinkingPatterns(text) ==
    IF text = Undefined \/ text = Empty THEN Empty
    ELSE CollapseBlankLines(Trim(ApplyPatternsFrom(1, text)))

(***************************************************************************)
(* thinking-extractors.ts.  A vendor payload is a record                   *)
(*   [candidate, parts, reasoning, thinking]:                              *)
(*   OpenAI style: choices[0].message.content is parts[1] (absent when     *)
(*     parts is empty), message.reasoning and message.thinking the fields; *)
(*   Claude: content holds one text block per part, thinking is the        *)
(*     top-level field;                                                    *)
(*   Gemini: candidates[0] exists iff candidate, its content.parts hold    *)
(*     one text part per part.                                             *)
(* An absent string field is Undefined.                                    *)
(***************************************************************************)
\* JavaScript truthiness of a string or undefined.
Truthy(t) == t # Undefined /\ t # Empty

\* a || b on strings.
OrElse(a, b) == IF Truthy(a) THEN a ELSE b

MessageContent(raw) == IF raw.parts = <<>> THEN Undefined ELSE raw.parts[1]

\* textParts.filter(Boolean).join("\n\n")
RECURSIVE JoinParts(_)
JoinParts(parts) ==
    IF parts = <<>> THEN Empty
    ELSE LET rest == JoinParts(Tail(parts))
         IN  IF ~Truthy(Head(parts)) THEN rest
             ELSE IF rest = Empty THEN Head(parts)
             ELSE Head(parts) \o <<NL, NL>> \o rest

extractGLMThinking(raw) ==
    [content |-> OrElse(MessageContent(raw), Empty),
     reasoning |-> OrElse(raw.reasoning, OrElse(raw.thinking, Empty)),
     thinking |-> Undefined]

extractOpenAIThinking(raw) ==
    [content |-> OrElse(MessageContent(raw), Empty),
     reasoning |-> OrElse(raw.reasoning, Empty),
     thinking |-> Undefined]

extractClaudeThinking(raw) ==
    [content |-> JoinParts(raw.parts),
     reasoning |-> OrElse(raw.thinking, Empty),
     thinking |-> Undefined]

extractGeminiThinking(raw) ==
    IF ~raw.candidate
    THEN [content |-> Empty, reasoning |-> Undefined, thinking |-> Undefined]
    ELSE [content |-> JoinParts(raw.parts), reasoning |-> Undefined, thinking |-> Undefined]

(***************************************************************************)
(* thinking-filter.ts                                                      *)
(***************************************************************************)
\* The threshold of the fail-closed rule of stripThinking.
FailClosedLength == 10

\* stripThinking surfacing the field's text in place of a short answer.
stripThinkingFallback(envelope) ==
    LET cleaned == stripThinkingPatterns(OrElse(envelope.content, Empty))
    IN  IF Len(cleaned) < FailClosedLength
           /\ (Truthy(envelope.reasoning) \/ Truthy(envelope.thinking))
        THEN OrElse(envelope.reasoning, envelope.thinking)
        ELSE cleaned

\* stripThinking failing closed on a stripped answer of ten characters too.
stripThinkingInclusive(envelope) ==
    LET cleaned == stripThinkingPatterns(OrElse(envelope.content, Empty))
    IN  IF Len(cleaned) <= FailClosedLength
           /\ (Truthy(envelope.reasoning) \/ Truthy(envelope.thinking))
        THEN Empty
        ELSE cleaned

stripThinking(envelope) ==
    LET cleaned == stripThinkingPatterns(OrElse(envelope.content, Empty))
    IN  IF Len(cleaned) < FailClosedLength
           /\ (Truthy(envelope.reasoning) \/ Truthy(envelope.thinking))
        THEN Empty
        ELSE cleaned

\* THINKING_EXTRACTORS[modelType] || extractOpenAIThinking
ExtractEnvelope(raw, modelType) ==
    CASE modelType = "glm" -> extractGLMThinking(raw)
      [] modelType \in {"siliconflow", "openai"} -> extractOpenAIThinking(raw)
      [] modelType = "claude" -> extractClaudeThinking(raw)
      [] modelType = "gemini" -> extractGeminiThinking(raw)
      [] OTHER -> extractOpenAIThinking(raw)

\* The extractors catch their own failures and stripThinking throws on no
\* string, so the fallback branch of filterThinkingContent is never taken.
filterThinkingContent(rawResponse, modelType) ==
    stripThinking(ExtractEnvelope(rawResponse, modelType))

(***************************************************************************)
(* errors.ts.  An error is a record [name, code, message, hasDetails,      *)
(* details].  A detail map is a function from DetailKeys to tagged values: *)
(*   [t |-> "num", v |-> n], [t |-> "str", v |-> text], [t |-> "null"],    *)
(*   [t |-> "raw", v |-> payload] (a vendor payload kept as an object),    *)
(*   [t |-> "arr", v |-> items] (an array, a sequence of tagged values),   *)
(*   [t |-> "obj", v |-> fields] (a nested object, a function from its     *)
(*   keys to tagged values), [t |-> "id", v |-> name] (an error's name),   *)
(*   and Absent for a key the map does not hold.                           *)
(* hasDetails is FALSE when the details property is undefined.             *)
(***************************************************************************)
DetailKeys == {"status", "statusText", "errorDetails", "endpoint", "retryAfter",
               "guidance", "requestId", "errorText", "error", "response",
               "contentType", "bodyLength", "bodyPreview", "timeout", "reason",
               "lastError", "input", "path", "url", "protocol", "filename",
               "supportedExtensions", "dataUrl", "supportedTypes",
               "originalError"}
Absent == [t |-> "absent", v |-> 0]
Num(n) == [t |-> "num", v |-> n]
Str(text) == [t |-> "str", v |-> text]
Null == [t |-> "null", v |-> 0]
Raw(x) == [t |-> "raw", v |-> x]
Arr(items) == [t |-> "arr", v |-> items]
Obj(fields) == [t |-> "obj", v |-> fields]

\* The detail map holding the entries of the record given.
Details(entries) ==
    CHOOSE d \in {[k \in DetailKeys |-> IF k \in DOMAIN e THEN e[k] ELSE Absent] :
                    e \in {entries}} : TRUE
NoEntries == [k \in DetailKeys |-> Absent]

ModelAPIPrefix == <<"M", "o", "d", "e", "l", " ", "A", "P", "I", " ", "e", "r", "r", "o", "r", ":", " ">>
TimeoutPrefix == <<"R", "e", "q", "u", "e", "s", "t", " ", "t", "i", "m", "e", "o", "u", "t", ":", " ">>
Mask == <<"*", "*", "*">>
\* The credential parameter names of sanitizeUrlInString, in the order of the
\* alternation.
CredentialParams == <<<<"k", "e", "y">>,
    <<"a", "p", "i", "_", "k", "e", "y">>,
    <<"a", "p", "i", "k", "e", "y">>,
    <<"t", "o", "k", "e", "n">>,
    <<"a", "c", "c", "e", "s", "s", "_", "t", "o", "k", "e", "n">>,
    <<"a", "p", "i", "-", "k", "e", "y">>,
    <<"a", "p", "i", "k", "e", "y">>>>

\* The first position >= i holding "&" or white space (Len + 1 when none).
ValueEnd(text, i) ==
    LET S == {k \in i..Len(text) : text[k] = "&" \/ text[k] \in WhiteSpace}
    IN  IF S = {} THEN Len(text) + 1 ELSE Min(S)

\* The length of the parameter name of the match of
\* /[?&](?:key|api_key|...)=([^&\s]+)/i that starts at i, or 0 when none does:
\* a separator, a name, "=", and at least one value character.
RECURSIVE CredentialNameAt(_, _, _)
CredentialNameAt(text, i, n) ==
    IF n > Len(CredentialParams) \/ text[i] \notin {"?", "&"} THEN 0
    ELSE LET name == CredentialParams[n]
             v == i + 1 + Len(name) + 1
         IN  IF /\ IsPrefixAt(name, text, i + 1)
                /\ IsPrefixAt(<<"=">>, text, i + 1 + Len(name))
                /\ ValueEnd(text, v) > v
             THEN Len(name)
             ELSE CredentialNameAt(text, i, n + 1)

\* sanitizeUrlInString writing the value where the parameter name belongs.
RECURSIVE SanitizeInverted(_, _)
SanitizeInverted(text, i) ==
    LET S == {k \in i..Len(text) : CredentialNameAt(text, k, 1) > 0}
    IN  IF S = {} THEN SubSeq(text, i, Len(text))
        ELSE LET k == Min(S)
                 n == CredentialNameAt(text, k, 1)
                 e == ValueEnd(text, k + n + 2)
             IN  SubSeq(text, i, k) \o SubSeq(text, k + n + 2, e - 1) \o <<"=">> \o Mask
                   \o SanitizeInverted(text, e)

\* sanitizeUrlInString: every match is replaced by its separator, its
\* parameter name as written, and "=***".
RECURSIVE SanitizeFrom(_, _)
SanitizeFrom(text, i) ==
    LET S == {k \in i..Len(text) : CredentialNameAt(text, k, 1) > 0}
    IN  IF S = {} THEN SubSeq(text, i, Len(text))
        ELSE LET k == Min(S)
                 n == CredentialNameAt(text, k, 1)
             IN  SubSeq(text, i, k + n) \o <<"=">> \o Mask
                   \o SanitizeFrom(text, ValueEnd(text, k + n + 2))

sanitizeUrlInString(text) == SanitizeFrom(text, 1)

\* sanitizeDetails on a vendor payload kept in a detail map: its strings, at
\* any depth, go through sanitizeUrlInString.
SanitizeOptional(t) == IF t = Undefined THEN Undefined ELSE sanitizeUrlInString(t)

SanitizePayload(raw) ==
    [candidate |-> raw.candidate,
     parts |-> [k \in DOMAIN raw.parts |-> sanitizeUrlInString(raw.parts[k])],
     reasoning |-> SanitizeOptional(raw.reasoning),
     thinking |-> SanitizeOptional(raw.thinking)]

\* sanitizeDetails: a string value is sanitized, an array is mapped item by
\* item, a nested object is sanitized in turn, any other value is kept.  An
\* item of an array that is itself an array or an object goes through
\* sanitizeDetails, which returns an object.
RECURSIVE sanitizeDetails(_), SanitizeValue(_), SanitizeItem(_)
SanitizeItem(item) ==
    CASE item.t = "str" -> Str(sanitizeUrlInString(item.v))
      [] item.t \in {"arr", "obj"} -> Obj(sanitizeDetails(item.v))
      [] item.t = "raw" -> Raw(SanitizePayload(item.v))
      [] OTHER -> item

SanitizeValue(x) ==
    CASE x.t = "str" -> Str(sanitizeUrlInString(x.v))
      [] x.t = "arr" -> Arr([k \in DOMAIN x.v |-> SanitizeItem(x.v[k])])
      [] x.t = "obj" -> Obj(sanitizeDetails(x.v))
      [] x.t = "raw" -> Raw(SanitizePayload(x.v))
      [] OTHER -> x

sanitizeDetails(details) ==
    CHOOSE s \in {[k \in DOMAIN d |-> SanitizeValue(d[k])] : d \in {details}} : TRUE

\* new ModelAPIError(message, details): details || {} is sanitized.
ModelAPIError(message, details) ==
    [name |-> "ModelAPIError", code |-> "MODEL_API_ERROR",
     message |-> ModelAPIPrefix \o message,
     hasDetails |-> TRUE, details |-> sanitizeDetails(details)]

\* new TimeoutError(message): the details are left undefined.
TimeoutError(message) ==
    [name |-> "TimeoutError", code |-> "TIMEOUT_ERROR",
     message |-> TimeoutPrefix \o message,
     hasDetails |-> FALSE, details |-> NoEntries]

\* new InvalidInputError(message, details) and new ImageLoadError(message,
\* details): the details are stored as given.  The cause is not modelled: no
\* code under src/ reads it.
InvalidInputError(message, details) ==
    [name |-> "InvalidInputError", code |-> "INVALID_INPUT",
     message |-> <<"I", "n", "v", "a", "l", "i", "d", " ", "i", "n", "p", "u", "t", ":", " ">> \o message,
     hasDetails |-> TRUE, details |-> details]

ImageLoadError(message, details) ==
    [name |-> "ImageLoadError", code |-> "IMAGE_LOAD_ERROR",
     message |-> <<"F", "a", "i", "l", "e", "d", " ", "t", "o", " ", "l", "o", "a", "d", " ", "i", "m", "a", "g", "e", ":", " ">> \o message,
     hasDetails |-> TRUE, details |-> details]

\* An error that is no VisionMCPError: a TypeError of fetch, a SyntaxError of
\* JSON.parse, the AbortError of an aborted signal.
PlainError(name, message) ==
    [name |-> name, code |-> "none", message |-> message,
     hasDetails |-> FALSE, details |-> NoEntries]

\* instanceof VisionMCPError
IsVisionMCPError(e) ==
    e.name \in {"VisionMCPError", "InvalidInputError", "ModelConfigError",
                "ImageLoadError", "ModelAPIError", "TimeoutError"}

(***************************************************************************)
(* The response parsers of the adapters.  A result is Ok(content), the     *)
(* VisionModelResponse returned, or Err(error), the error thrown.          *)
(***************************************************************************)
NoError == PlainError("none", Empty)
Ok(content) == [tag |-> "ok", content |-> content, error |-> NoError]
Err(e) == [tag |-> "error", content |-> Undefined, error |-> e]


parseResponseLenient(response, modelType) ==
    Ok(filterThinkingContent(response, modelType))

\* BaseVisionModelAdapter.parseResponse: the error of the missing content is
\* caught by the outer handler and wrapped.  filterThinkingContent does not
\* throw, so the raw content is never returned through the inner handler.
parseResponse(response, modelType) ==
    IF ~Truthy(MessageContent(response))
    THEN Err(ModelAPIError(<<"F", "a", "i", "l", "e", "d", " ", "t", "o", " ", "p", "a", "r", "s", "e", " ", "m", "o", "d", "e", "l", " ", "r", "e", "s", "p", "o", "n", "s", "e">>, Details([response |-> Raw(response)])))
    ELSE Ok(filterThinkingContent(response, modelType))

\* ClaudeAdapter.normalizeResponse
ClaudeNormalizeResponse(claudeResponse) ==
    LET content == JoinParts(claudeResponse.parts)
    IN  IF ~Truthy(content)
        THEN Err(ModelAPIError(<<"E", "m", "p", "t", "y", " ", "c", "o", "n", "t", "e", "n", "t", " ", "i", "n", " ", "C", "l", "a", "u", "d", "e", " ", "r", "e", "s", "p", "o", "n", "s", "e">>, Details([response |-> Raw(claudeResponse)])))
        ELSE Ok(content)

\* GeminiAdapter.normalizeResponse
GeminiNormalizeResponse(geminiResponse) ==
    LET details == Details([response |-> Raw(geminiResponse)])
    IN  IF ~geminiResponse.candidate
        THEN Err(ModelAPIError(<<"N", "o", " ", "c", "a", "n", "d", "i", "d", "a", "t", "e", "s", " ", "i", "n", " ", "G", "e", "m", "i", "n", "i", " ", "r", "e", "s", "p", "o", "n", "s", "e">>, details))
        ELSE IF geminiResponse.parts = <<>>
        THEN Err(ModelAPIError(<<"N", "o", " ", "p", "a", "r", "t", "s", " ", "i", "n", " ", "G", "e", "m", "i", "n", "i", " ", "r", "e", "s", "p", "o", "n", "s", "e">>, details))
        ELSE IF ~Truthy(JoinParts(geminiResponse.parts))
        THEN Err(ModelAPIError(<<"E", "m", "p", "t", "y", " ", "c", "o", "n", "t", "e", "n", "t", " ", "i", "n", " ", "G", "e", "m", "i", "n", "i", " ", "r", "e", "s", "p", "o", "n", "s", "e">>, details))
        ELSE Ok(filterThinkingContent(geminiResponse, "gemini"))

\* The adapters under src/: three share parseResponse, with their own
\* modelType; Claude and Gemini normalize their own payloads.
OpenAIStyle == {"glm", "siliconflow", "modelscope"}
Vendors == OpenAIStyle \cup {"claude", "gemini"}

(***************************************************************************)
(* The inputs explored: answer texts made of up to MaxFrags fragments,     *)
(* which hold every marker of THINKING_PATTERNS, pieces of markers, a      *)
(* short visible answer and a line break.                                  *)
(***************************************************************************)
ACat == <<"A", " ", "c", "a", "t">>
ReasoningLabel == <<"R", "e", "a", "s", "o", "n", "i", "n", "g", ":">>
Fragments == {TagOpen, TagClose, <<"<", "t", "h", "i", "n">>, <<"k", "i", "n", "g", ">">>, ReasoningLabel,
              AnalysisTag, FenceThinking, Fence, BracketOpen, BracketClose,
              ACat, <<NL>>}

RECURSIVE Concat(_)
Concat(texts) == IF texts = <<>> THEN Empty ELSE Head(texts) \o Concat(Tail(texts))

Texts == {Concat(f) : f \in UNION {[1..k -> Fragments] : k \in 0..MaxFrags}}

\* The answer texts of envelopes and payloads: whole markers and visible text.
CoreFragments == {TagOpen, TagClose, ReasoningLabel, AnalysisTag, ACat, <<NL>>}
CoreTexts == {Concat(f) : f \in UNION {[1..k -> CoreFragments] : k \in 0..MaxFrags}}

\* The texts a reasoning or thinking field may hold.
Secret == <<"s", "t", "e", "p", " ", "1", ":", " ", "i", "t", " ", "i", "s", " ", "a", " ", "c", "a", "t">>
OtherSecret == <<"h", "m">>
FieldTexts == {Undefined, Empty, Secret, OtherSecret}
\* The <<reasoning, thinking>> fields of the envelopes explored.
EnvelopeFields == {<<Undefined, Undefined>>, <<Empty, Undefined>>,
                   <<Secret, Undefined>>, <<OtherSecret, Undefined>>,
                   <<Undefined, Secret>>, <<Secret, OtherSecret>>}
\* The payloads explored: no part, one part, or a short part and a second one;
\* a payload without candidate holds no part.
PartLists == {<<>>} \cup {<<x>> : x \in CoreTexts}
               \cup {<<x, ACat>> : x \in CoreFragments \cup {Empty}}
PayloadFields == {<<Undefined, Undefined>>, <<Secret, Undefined>>,
                  <<Undefined, Secret>>}
Payloads ==
    {[candidate |-> c, parts |-> p, reasoning |-> f[1], thinking |-> f[2]] :
        c \in {TRUE}, p \in PartLists, f \in PayloadFields}
    \cup {[candidate |-> FALSE, parts |-> <<>>, reasoning |-> Undefined,
           thinking |-> Undefined]}

(***************************************************************************)
(* The state of an adapter on which no withRetry call has been made.       *)
(***************************************************************************)
NotConfigured == -1
(***************************************************************************)
(* The operation each adapter hands to withRetry: one HTTP exchange with   *)
(* the vendor, seen through how the exchange ended.                        *)
(***************************************************************************)
DefaultMaxRetries == 2
DefaultTimeout == 60000
BackoffBase == 1000
BackoffCap == 5000
\* The set without 404.
NonRetryableWithout404 == {400, 401, 403}

NonRetryableWith429 == {400, 401, 403, 404, 429}

NON_RETRYABLE_STATUS_CODES == {400, 401, 403, 404}

DigitChar == <<"0", "1", "2", "3", "4", "5", "6", "7", "8", "9">>
\* The decimal text of a natural number, as a template literal prints it.
RECURSIVE Digits(_)
Digits(n) ==
    IF n < 10 THEN <<DigitChar[n + 1]>>
    ELSE Digits(n \div 10) \o <<DigitChar[(n % 10) + 1]>>

\* ---- what the vendor's server can answer ----
HttpStatuses == {400, 401, 403, 404, 429, 500}
StatusText(status) ==
    CASE status = 400 -> <<"B", "a", "d", " ", "R", "e", "q", "u", "e", "s", "t">>
      [] status = 401 -> <<"U", "n", "a", "u", "t", "h", "o", "r", "i", "z", "e", "d">>
      [] status = 403 -> <<"F", "o", "r", "b", "i", "d", "d", "e", "n">>
      [] status = 404 -> <<"N", "o", "t", " ", "F", "o", "u", "n", "d">>
      [] status = 429 -> <<"T", "o", "o", " ", "M", "a", "n", "y", " ", "R", "e", "q", "u", "e", "s", "t", "s">>
      [] OTHER -> <<"I", "n", "t", "e", "r", "n", "a", "l", " ", "S", "e", "r", "v", "e", "r", " ", "E", "r", "r", "o", "r">>
PlainBody == <<"d", "e", "n", "i", "e", "d">>
UrlBody == <<"G", "E", "T", " ", "/", "v", "1", "?", "k", "e", "y", "=", "a", "b", "c", " ", "f", "a", "i", "l", "e", "d">>
RetryAfterSeconds == <<"7">>
Bodies == {PlainBody, UrlBody}
NoHeader == Undefined
BaseUrl == <<"h", "t", "t", "p", "s", ":", "/", "/", "h", "o", "s", "t", "/", "v", "1">>
JsonContentType == <<"a", "p", "p", "l", "i", "c", "a", "t", "i", "o", "n", "/", "j", "s", "o", "n">>

\* How one invocation of the operation ended.
NoPayload == [candidate |-> FALSE, parts |-> <<>>, reasoning |-> Undefined,
              thinking |-> Undefined]
EventOf(kind, status, body, retryAfter, phase, payload) ==
    [kind |-> kind, status |-> status, body |-> body, retryAfter |-> retryAfter,
     phase |-> phase, payload |-> payload]
NoEvent == EventOf("none", 0, Empty, NoHeader, "none", NoPayload)
RetryPayloads ==
    {[candidate |-> TRUE, parts |-> <<ACat \o ACat>>, reasoning |-> Undefined,
      thinking |-> Undefined],
     [candidate |-> TRUE, parts |-> <<TagOpen \o <<"x">> \o TagClose \o ACat>>,
      reasoning |-> Undefined, thinking |-> Undefined],
     [candidate |-> TRUE, parts |-> <<TagOpen \o ACat \o TagClose \o ACat \o ACat>>,
      reasoning |-> Secret, thinking |-> Undefined],
     [candidate |-> TRUE, parts |-> <<>>, reasoning |-> Undefined,
      thinking |-> Undefined],
     [candidate |-> TRUE, parts |-> <<Empty>>, reasoning |-> Undefined,
      thinking |-> Undefined],
     NoPayload}
OkEvents == {EventOf("ok", 200, Empty, NoHeader, "none", p) : p \in RetryPayloads}
HttpEvents ==
    {EventOf("http", s, b, NoHeader, "none", NoPayload) :
        s \in HttpStatuses, b \in Bodies}
    \cup {EventOf("http", 429, b, RetryAfterSeconds, "none", NoPayload) : b \in Bodies}
NetworkEvents == {EventOf("network", 0, Empty, NoHeader, "none", NoPayload)}
BadJsonEvents == {EventOf("badjson", 200, b, NoHeader, "none", NoPayload) : b \in Bodies}
\* The timer of withRetry fires while fetch is pending, while the body of a
\* 200 response is read, or while the body of an error response is read.
TimeoutEvents ==
    {EventOf("timeout", 0, Empty, NoHeader, "fetch", NoPayload),
     EventOf("timeout", 200, Empty, NoHeader, "body", NoPayload)}
    \cup {EventOf("timeout", s, Empty, NoHeader, "errbody", NoPayload) :
            s \in HttpStatuses}

\* ---- the errors of the platform ----
FetchTypeError == PlainError("TypeError", <<"f", "e", "t", "c", "h", " ", "f", "a", "i", "l", "e", "d">>)
AbortError == PlainError("AbortError", <<"T", "h", "i", "s", " ", "o", "p", "e", "r", "a", "t", "i", "o", "n", " ", "w", "a", "s", " ", "a", "b", "o", "r", "t", "e", "d">>)
JsonSyntaxError == PlainError("SyntaxError", <<"U", "n", "e", "x", "p", "e", "c", "t", "e", "d", " ", "t", "o", "k", "e", "n", " ", "<", " ", "i", "n", " ", "J", "S", "O", "N", " ", "a", "t", " ", "p", "o", "s", "i", "t", "i", "o", "n", " ", "0">>)

\* ---- the message texts of the adapters ----
MsgRateLimit == <<"R", "a", "t", "e", " ", "l", "i", "m", "i", "t", " ", "e", "x", "c", "e", "e", "d", "e", "d", " ", "(", "4", "2", "9", ")", ".">>
MsgRetryAfter == <<"R", "e", "t", "r", "y", " ", "a", "f", "t", "e", "r", " ">>
MsgRequestFailed == <<" ", "A", "P", "I", " ", "r", "e", "q", "u", "e", "s", "t", " ", "f", "a", "i", "l", "e", "d", ":", " ">>
MsgFailedAfter == <<"F", "a", "i", "l", "e", "d", " ", "a", "f", "t", "e", "r", " ">>
MsgAttempts == <<" ", "a", "t", "t", "e", "m", "p", "t", "s">>
VendorLabel(v) ==
    CASE v = "glm" -> <<"G", "L", "M">>
      [] v = "siliconflow" -> <<"S", "i", "l", "i", "c", "o", "n", "F", "l", "o", "w">>
      [] v = "modelscope" -> <<"M", "o", "d", "e", "l", "S", "c", "o", "p", "e">>
      [] v = "claude" -> <<"C", "l", "a", "u", "d", "e">>
      [] OTHER -> <<"G", "e", "m", "i", "n", "i">>

HeaderValue(h) == IF h = NoHeader THEN Null ELSE Str(h)

\* ---- callGLMAPI, callSiliconFlowAPI, callModelScopeAPI ----
\* The error thrown for a response that is not ok; errorText is the body, or
\* the replacement text when the body cannot be read.
OpenAIStyleHttpError(v, status, errorText, retryAfter) ==
    LET endpoint == BaseUrl \o <<"/", "c", "h", "a", "t", "/", "c", "o", "m", "p", "l", "e", "t", "i", "o", "n", "s">>
    IN  IF status = 429
        THEN ModelAPIError(
                 MsgRateLimit \o <<SP>>
                   \o (IF retryAfter = NoHeader THEN Empty
                       ELSE MsgRetryAfter \o retryAfter \o <<"s", ".", SP>>)
                   \o <<"P", "l", "e", "a", "s", "e", " ", "c", "h", "e", "c", "k", " ", "y", "o", "u", "r", " ", "A", "P", "I", " ", "q", "u", "o", "t", "a", " ", "o", "r", " ", "w", "a", "i", "t", " ", "b", "e", "f", "o", "r", "e", " ", "r", "e", "t", "r", "y", "i", "n", "g", ".">>,
                 Details([status |-> Num(status),
                          statusText |-> Str(StatusText(status)),
                          errorDetails |-> Str(errorText),
                          endpoint |-> Str(endpoint),
                          retryAfter |-> HeaderValue(retryAfter),
                          guidance |-> Str(<<"C", "h", "e", "c", "k", " ", "y", "o", "u", "r", " ", "A", "P", "I", " ", "q", "u", "o", "t", "a", " ", "o", "r", " ", "w", "a", "i", "t", " ", "b", "e", "f", "o", "r", "e", " ", "r", "e", "t", "r", "y", "i", "n", "g">>)]))
        ELSE ModelAPIError(
                 VendorLabel(v) \o MsgRequestFailed \o Digits(status) \o <<SP>>
                   \o StatusText(status),
                 Details([status |-> Num(status),
                          statusText |-> Str(StatusText(status)),
                          errorDetails |-> Str(errorText),
                          endpoint |-> Str(endpoint)]))

OpenAIStyleOperation(v, ev) ==
    CASE ev.kind = "ok" -> parseResponse(ev.payload, v)
      [] ev.kind = "http" ->
            Err(OpenAIStyleHttpError(v, ev.status, ev.body, ev.retryAfter))
      [] ev.kind = "network" -> Err(FetchTypeError)
      [] ev.kind = "badjson" -> Err(JsonSyntaxError)
      [] ev.kind = "timeout" /\ ev.phase = "errbody" ->
            Err(OpenAIStyleHttpError(v, ev.status, <<"F", "a", "i", "l", "e", "d", " ", "t", "o", " ", "g", "e", "t", " ", "e", "r", "r", "o", "r", " ", "d", "e", "t", "a", "i", "l", "s">>, ev.retryAfter))
      [] OTHER -> Err(AbortError)

\* ---- ClaudeAdapter and GeminiAdapter: handleErrorResponse ----
\* The error bodies explored are no JSON, so the body goes to errorText; a
\* body that cannot be read leaves the details without it.
NativeHttpError(v, status, body, readable, retryAfter) ==
    LET base == IF v = "claude"
                THEN [status |-> Num(status), requestId |-> Null]
                ELSE [status |-> Num(status)]
        entries == IF readable THEN base @@ [errorText |-> Str(body)] ELSE base
    IN  IF status = 429
        THEN ModelAPIError(
                 MsgRateLimit \o (IF retryAfter = NoHeader THEN Empty
                                  ELSE <<SP>> \o MsgRetryAfter \o retryAfter
                                         \o <<"s">>),
                 Details(entries))
        ELSE ModelAPIError(VendorLabel(v) \o MsgRequestFailed \o Digits(status),
                           Details(entries))

\* parseResponseData: a body that is no JSON, a body that cannot be read.
NativeParseError(v, body) ==
    ModelAPIError(<<"F", "a", "i", "l", "e", "d", " ", "t", "o", " ", "p", "a", "r", "s", "e", " ">> \o VendorLabel(v) \o <<" ", "r", "e", "s", "p", "o", "n", "s", "e", " ", "a", "s", " ", "J", "S", "O", "N">>,
                  Details([contentType |-> Str(JsonContentType),
                           bodyLength |-> Num(Len(body)),
                           bodyPreview |-> Str(body)]))
NativeReadError(v) ==
    ModelAPIError(<<"F", "a", "i", "l", "e", "d", " ", "t", "o", " ", "r", "e", "a", "d", " ">> \o VendorLabel(v) \o <<" ", "r", "e", "s", "p", "o", "n", "s", "e">>,
                  Details([contentType |-> Str(JsonContentType)]))

\* callClaudeAPI
ClaudeOperation(ev) ==
    CASE ev.kind = "ok" -> ClaudeNormalizeResponse(ev.payload)
      [] ev.kind = "http" ->
            Err(NativeHttpError("claude", ev.status, ev.body, TRUE, ev.retryAfter))
      [] ev.kind = "network" -> Err(FetchTypeError)
      [] ev.kind = "badjson" -> Err(NativeParseError("claude", ev.body))
      [] ev.kind = "timeout" /\ ev.phase = "errbody" ->
            Err(NativeHttpError("claude", ev.status, Empty, FALSE, ev.retryAfter))
      [] ev.kind = "timeout" /\ ev.phase = "body" -> Err(NativeReadError("claude"))
      [] OTHER -> Err(AbortError)

\* callGeminiAPI: its handler turns the AbortError of fetch into a
\* ModelAPIError and lets every other error through.
GeminiOperation(ev) ==
    CASE ev.kind = "ok" -> GeminiNormalizeResponse(ev.payload)
      [] ev.kind = "http" ->
            Err(NativeHttpError("gemini", ev.status, ev.body, TRUE, ev.retryAfter))
      [] ev.kind = "network" -> Err(FetchTypeError)
      [] ev.kind = "badjson" -> Err(NativeParseError("gemini", ev.body))
      [] ev.kind = "timeout" /\ ev.phase = "errbody" ->
            Err(NativeHttpError("gemini", ev.status, Empty, FALSE, ev.retryAfter))
      [] ev.kind = "timeout" /\ ev.phase = "body" -> Err(NativeReadError("gemini"))
      [] OTHER -> Err(ModelAPIError(<<"R", "e", "q", "u", "e", "s", "t", " ", "t", "i", "m", "e", "d", " ", "o", "u", "t">>,
                                    Details([timeout |-> Num(DefaultTimeout),
                                             reason |-> Str(<<"A", "P", "I", " ", "r", "e", "q", "u", "e", "s", "t", " ", "e", "x", "c", "e", "e", "d", "e", "d", " ", "t", "i", "m", "e", "o", "u", "t">>)])))

\* The operation of the vendor's adapter, settled by the event.
Operation(v, ev) ==
    CASE v \in OpenAIStyle -> OpenAIStyleOperation(v, ev)
      [] v = "claude" -> ClaudeOperation(ev)
      [] OTHER -> GeminiOperation(ev)

NoOutcome == [tag |-> "none", value |-> Ok(Undefined), error |-> NoError]

RetryIdle ==
    /\ pc = "idle"
    /\ attempt = 0
    /\ maxRetries = 0
    /\ lastError = NoError
    /\ calls = 0
    /\ waits = <<>>
    /\ failures = 0
    /\ event = NoEvent
    /\ outcome = NoOutcome

(***************************************************************************)
(* The state of a process in which no request is in flight, the registry   *)
(* is empty and getVisionTool has not been called.                         *)
(***************************************************************************)
\* No config argument, and the toolInstance no call has set yet.
NoConfig == [type |-> "none", apiKey |-> FALSE, timeout |-> NotConfigured,
             maxRetries |-> NotConfigured]

NoTool == [id |-> 0, modelConfig |-> NoConfig, adapter |-> [id |-> 0, type |-> "none"]]

ProcessIdle ==
    /\ reqs = <<>>
    /\ providers = <<>>
    /\ firstRegistered = <<>>
    /\ toolInstance = NoTool
    /\ constructed = <<>>
    /\ handed = <<>>
    /\ invoked = <<>>

(***************************************************************************)
(* SpecStrip: stripThinkingPatterns applied to every text.                 *)
(***************************************************************************)
InitStrip ==
    /\ fpc = "ready"
    /\ fin \in Texts
    /\ fout = Undefined
    /\ vendor = "glm"
    /\ cfgMaxRetries = NotConfigured
    /\ RetryIdle
    /\ ProcessIdle

StripPatterns ==
    /\ fpc = "ready"
    /\ fout' = stripThinkingPatterns(fin)
    /\ fpc' = "done"
    /\ UNCHANGED <<fin, vendor, cfgMaxRetries, rvars, svars>>

SpecStrip == InitStrip /\ [][StripPatterns]_vars

(***************************************************************************)
(* SpecEnvelope: stripThinking applied to every response envelope.         *)
(***************************************************************************)
InitEnvelope ==
    /\ fpc = "ready"
    /\ fin \in {[content |-> c, reasoning |-> f[1], thinking |-> f[2]] :
                  c \in CoreTexts, f \in EnvelopeFields}
    /\ fout = Undefined
    /\ vendor = "glm"
    /\ cfgMaxRetries = NotConfigured
    /\ RetryIdle
    /\ ProcessIdle

StripEnvelope ==
    /\ fpc = "ready"
    /\ fout' = stripThinking(fin)
    /\ fpc' = "done"
    /\ UNCHANGED <<fin, vendor, cfgMaxRetries, rvars, svars>>

SpecEnvelope == InitEnvelope /\ [][StripEnvelope]_vars

(***************************************************************************)
(* SpecParse: each adapter's parser applied to every payload.              *)
(***************************************************************************)
InitParse ==
    /\ fpc = "ready"
    /\ fin \in Payloads
    /\ fout = Ok(Undefined)
    /\ vendor \in Vendors
    /\ cfgMaxRetries = NotConfigured
    /\ RetryIdle
    /\ ProcessIdle

\* callGLMAPI, callSiliconFlowAPI, callModelScopeAPI on a 200 payload.
BaseParseResponse ==
    /\ fpc = "ready"
    /\ vendor \in OpenAIStyle
    /\ fout' = parseResponse(fin, vendor)
    /\ fpc' = "done"
    /\ UNCHANGED <<fin, vendor, cfgMaxRetries, rvars, svars>>

\* callClaudeAPI on a 200 payload.
ClaudeNormalize ==
    /\ fpc = "ready"
    /\ vendor = "claude"
    /\ fout' = ClaudeNormalizeResponse(fin)
    /\ fpc' = "done"
    /\ UNCHANGED <<fin, vendor, cfgMaxRetries, rvars, svars>>

\* callGeminiAPI on a 200 payload.
GeminiNormalize ==
    /\ fpc = "ready"
    /\ vendor = "gemini"
    /\ fout' = GeminiNormalizeResponse(fin)
    /\ fpc' = "done"
    /\ UNCHANGED <<fin, vendor, cfgMaxRetries, rvars, svars>>

NextParse == BaseParseResponse \/ ClaudeNormalize \/ GeminiNormalize

SpecParse == InitParse /\ [][NextParse]_vars

(***************************************************************************)
(* SpecFilter: filterThinkingContent applied, for every model type, to a   *)
(* payload without reasoning field whose answer is one <thinking> block    *)
(* followed by visible text.                                               *)
(***************************************************************************)
\* What the block holds: no closing tag, any other marker.
BlockInners == {Empty, Secret, ReasoningLabel \o ACat, <<NL>> \o ACat \o <<NL>>,
                BracketOpen \o ACat}
\* The visible texts: words, spaces and line breaks, no marker.
VisibleTexts ==
    {Concat(f) : f \in UNION {[1..k -> {ACat, <<NL>>, <<SP>>}] : k \in 0..MaxFrags}}
ThinkingBlock(inner) == TagOpen \o inner \o TagClose

InitFilter ==
    /\ fpc = "ready"
    /\ fin \in {[candidate |-> TRUE, parts |-> <<ThinkingBlock(i) \o v>>,
                  reasoning |-> Undefined, thinking |-> Undefined] :
                    i \in BlockInners, v \in VisibleTexts}
    /\ fout = Undefined
    /\ vendor \in Vendors
    /\ cfgMaxRetries = NotConfigured
    /\ RetryIdle
    /\ ProcessIdle

FilterContent ==
    /\ fpc = "ready"
    /\ fout' = filterThinkingContent(fin, vendor)
    /\ fpc' = "done"
    /\ UNCHANGED <<fin, vendor, cfgMaxRetries, rvars, svars>>

SpecFilter == InitFilter /\ [][FilterContent]_vars

(***************************************************************************)
(* Spec: one withRetry call of an adapter, against every sequence of       *)
(* events.  The adapters pass no override, so maxRetries and timeout come  *)
(* from this.config.                                                       *)
(***************************************************************************)
Init ==
    /\ fpc = "off"
    /\ fin = Undefined
    /\ fout = Undefined
    /\ vendor \in Vendors
    /\ cfgMaxRetries \in {NotConfigured} \cup 0..MaxCfgRetries
    /\ RetryIdle
    /\ ProcessIdle

\* maxRetries = this.config.maxRetries || 2
EffectiveMaxRetries(configured) ==
    IF configured = NotConfigured \/ configured = 0
    THEN DefaultMaxRetries
    ELSE configured

\* The backoff without its cap.
BackoffUncapped(k) == BackoffBase * (2 ^ k)

\* Math.min(1000 * Math.pow(2, attempt), 5000)
BackoffTime(k) == Min({BackoffBase * (2 ^ k), BackoffCap})

Thrown(e) == [tag |-> "thrown", value |-> Ok(Undefined), error |-> e]
Returned(r) == [tag |-> "returned", value |-> r, error |-> NoError]

\* The details of the error thrown after the loop.
AggregateDetails(e) ==
    IF IsVisionMCPError(e) /\ e.hasDetails
    THEN [e.details EXCEPT !["lastError"] = Str(e.message)]
    ELSE Details([lastError |-> Str(e.message)])

\* The error thrown after the loop.
ExhaustedError(e, retries) ==
    ModelAPIError(MsgFailedAfter \o Digits(retries + 1) \o MsgAttempts,
                  AggregateDetails(e))

\* error.details?.status is a non-retryable status
HasNonRetryableStatus(e) ==
    /\ e.name = "ModelAPIError"
    /\ e.details["status"].t = "num"
    /\ e.details["status"].v # 0
    /\ e.details["status"].v \in NON_RETRYABLE_STATUS_CODES

\* A catch block that never leaves the loop on the last attempt.
HandleErrorUnbounded(e) ==
    /\ lastError' = e
    /\ IF e.name = "AbortError" \/ HasNonRetryableStatus(e)
       THEN /\ pc' = "thrown"
            /\ outcome' = Thrown(e)
            /\ UNCHANGED waits
       ELSE /\ pc' = "backoff"
            /\ waits' = Append(waits, BackoffTime(Min({attempt, 3})))
            /\ UNCHANGED outcome

\* The catch block of the loop, and what follows the loop when it breaks.
HandleError(e) ==
    /\ lastError' = e
    /\ IF e.name = "AbortError"
       THEN /\ pc' = "thrown"
            /\ outcome' = Thrown(TimeoutError(<<"R", "e", "q", "u", "e", "s", "t", " ", "t", "i", "m", "e", "d", " ", "o", "u", "t", " ", "a", "f", "t", "e", "r", " ">>
                                     \o Digits(DefaultTimeout) \o <<"m", "s">>))
            /\ UNCHANGED waits
       ELSE IF HasNonRetryableStatus(e)
       THEN /\ pc' = "thrown"
            /\ outcome' = Thrown(e)
            /\ UNCHANGED waits
       ELSE IF attempt = maxRetries
       THEN /\ pc' = "thrown"
            /\ outcome' = Thrown(ExhaustedError(e, maxRetries))
            /\ UNCHANGED waits
       ELSE /\ pc' = "backoff"
            /\ waits' = Append(waits, BackoffTime(attempt))
            /\ UNCHANGED outcome

\* The operation settles: withRetry returns its result or handles its error.
Settle(ev) ==
    /\ pc = "calling"
    /\ event' = ev
    /\ \E r \in {Operation(vendor, ev)} :
           IF r.tag = "ok"
           THEN /\ pc' = "returned"
                /\ outcome' = Returned(r)
                /\ UNCHANGED <<lastError, waits, failures>>
           ELSE /\ failures' = failures + 1
                /\ HandleError(r.error)
    /\ UNCHANGED <<fvars, svars, vendor, cfgMaxRetries, attempt, maxRetries, calls>>

\* withRetry is entered and the operation is invoked for attempt 0.
Start ==
    /\ pc = "idle"
    /\ maxRetries' = EffectiveMaxRetries(cfgMaxRetries)
    /\ attempt' = 0
    /\ calls' = 1
    /\ pc' = "calling"
    /\ UNCHANGED <<fvars, svars, vendor, cfgMaxRetries, lastError, waits, failures,
                   event, outcome>>

\* The server answers 200 with a JSON payload.
OperationReturns == \E ev \in OkEvents : Settle(ev)
\* The server answers with a status that is not ok.
ServerRefuses == \E ev \in HttpEvents : Settle(ev)
\* fetch rejects: no connection.
FetchFails == \E ev \in NetworkEvents : Settle(ev)
\* The server answers 200 with a body that is no JSON.
BodyNotJson == \E ev \in BadJsonEvents : Settle(ev)
\* The timer of the attempt fires first.
AttemptTimesOut == \E ev \in TimeoutEvents : Settle(ev)

\* The backoff wait is over: the loop invokes the operation again.
BackoffElapsed ==
    /\ pc = "backoff"
    /\ attempt' = attempt + 1
    /\ calls' = calls + 1
    /\ pc' = "calling"
    /\ UNCHANGED <<fvars, svars, vendor, cfgMaxRetries, maxRetries, lastError, waits,
                   failures, event, outcome>>

Next ==
    \/ Start
    \/ OperationReturns
    \/ ServerRefuses
    \/ FetchFails
    \/ BodyNotJson
    \/ AttemptTimesOut
    \/ BackoffElapsed

Spec == Init /\ [][Next]_vars

\* The operation invoked by the attempt in flight settles.
InvocationSettles ==
    OperationReturns \/ ServerRefuses \/ FetchFails \/ BodyNotJson \/ AttemptTimesOut

\* withRetry under the scheduling of the event loop: an operation in flight
\* settles in the end, by its timer at the latest, and the timer of a backoff
\* wait fires.
SpecLive ==
    /\ Init
    /\ [][Next]_vars
    /\ WF_vars(InvocationSettles)
    /\ WF_vars(BackoffElapsed)

(***************************************************************************)
(* image-input.ts.  The result of a normalizer is Normalized(...), the     *)
(* NormalizedImageInput returned, or NormalizeFailed(error), the error     *)
(* thrown.                                                                 *)
(***************************************************************************)
SUPPORTED_MIME_TYPES == <<<<"i", "m", "a", "g", "e", "/", "j", "p", "e", "g">>, <<"i", "m", "a", "g", "e", "/", "j", "p", "g">>, <<"i", "m", "a", "g", "e", "/", "p", "n", "g">>, <<"i", "m", "a", "g", "e", "/", "w", "e", "b", "p">>>>
\* The entries of EXT_TO_MIME_TYPE, in key order.
EXT_TO_MIME_TYPE == << <<<<".", "j", "p", "g">>, <<"i", "m", "a", "g", "e", "/", "j", "p", "e", "g">>>>, <<<<".", "j", "p", "e", "g">>, <<"i", "m", "a", "g", "e", "/", "j", "p", "e", "g">>>>,
                       <<<<".", "p", "n", "g">>, <<"i", "m", "a", "g", "e", "/", "p", "n", "g">>>>, <<<<".", "w", "e", "b", "p">>, <<"i", "m", "a", "g", "e", "/", "w", "e", "b", "p">>>> >>
\* EXT_TO_MIME_TYPE is an object literal: a key of Object.prototype that is its
\* own lower case reads an inherited member, which is truthy and no string.
InheritedKeys == { <<"c", "o", "n", "s", "t", "r", "u", "c", "t", "o", "r">>, <<"_", "_", "p", "r", "o", "t", "o", "_", "_">>}

\* String.prototype.startsWith, includes, endsWith, toLowerCase: exact matches.
StartsWith(text, pat) == Len(pat) <= Len(text) /\ SubSeq(text, 1, Len(pat)) = pat
EndsWith(text, pat) ==
    Len(pat) <= Len(text) /\ SubSeq(text, Len(text) - Len(pat) + 1, Len(text)) = pat
Includes(text, pat) ==
    \E k \in 1..(Len(text) - Len(pat) + 1) : SubSeq(text, k, k + Len(pat) - 1) = pat
toLowerCase(text) == [k \in DOMAIN text |-> LowerCase(text[k])]

detectInputTypeAnyCase(input) ==
    IF IsPrefixAt(<<"d", "a", "t", "a", ":", "i", "m", "a", "g", "e", "/">>, input, 1) /\ (\E k \in 1..Len(input) : IsPrefixAt(<<";", "b", "a", "s", "e", "6", "4", ",">>, input, k)) THEN "base64"
    ELSE IF IsPrefixAt(<<"h", "t", "t", "p", ":", "/", "/">>, input, 1) \/ IsPrefixAt(<<"h", "t", "t", "p", "s", ":", "/", "/">>, input, 1) THEN "url"
    ELSE "local"

detectInputType(input) ==
    IF StartsWith(input, <<"d", "a", "t", "a", ":", "i", "m", "a", "g", "e", "/">>) /\ Includes(input, <<";", "b", "a", "s", "e", "6", "4", ",">>) THEN "base64"
    ELSE IF StartsWith(input, <<"h", "t", "t", "p", ":", "/", "/">>) \/ StartsWith(input, <<"h", "t", "t", "p", "s", ":", "/", "/">>) THEN "url"
    ELSE "local"

\* filename.toLowerCase().substring(filename.lastIndexOf(".")): the whole name
\* when it holds no dot.
getMimeTypeFromFileName(filename) ==
    LET dots == {k \in 1..Len(filename) : filename[k] = "."}
        lower == toLowerCase(filename)
        ext == IF dots = {} THEN lower ELSE SubSeq(lower, Max(dots), Len(lower))
        own == {n \in DOMAIN EXT_TO_MIME_TYPE : EXT_TO_MIME_TYPE[n][1] = ext}
    IN  IF own # {} THEN Ok(EXT_TO_MIME_TYPE[CHOOSE n \in own : TRUE][2])
        ELSE IF ext \in InheritedKeys THEN Ok(<<"[", "o", "b", "j", "e", "c", "t", "]">>)
        ELSE Err(InvalidInputError(<<"U", "n", "s", "u", "p", "p", "o", "r", "t", "e", "d", " ", "f", "i", "l", "e", " ", "e", "x", "t", "e", "n", "s", "i", "o", "n", ":", " ">> \o ext,
                     Details([filename |-> Str(filename),
                              supportedExtensions |->
                                  Arr([n \in DOMAIN EXT_TO_MIME_TYPE |->
                                          Str(EXT_TO_MIME_TYPE[n][1])])])))

\* dataUrl.match(/^data:(image\/[^;]+);base64,/i): the group runs to the first
\* ";" after "data:image/", holds a character at least after the slash, and
\* ";base64," follows it.
getMimeTypeFromDataUrl(dataUrl) ==
    LET semis == {k \in 12..Len(dataUrl) : dataUrl[k] = ";"}
        end == IF semis = {} THEN 0 ELSE Min(semis)
        matched == /\ IsPrefixAt(<<"d", "a", "t", "a", ":", "i", "m", "a", "g", "e", "/">>, dataUrl, 1)
                   /\ end > 12
                   /\ IsPrefixAt(<<";", "b", "a", "s", "e", "6", "4", ",">>, dataUrl, end)
        mimeType == toLowerCase(SubSeq(dataUrl, 6, end - 1))
    IN  IF ~matched
        THEN Err(InvalidInputError(<<"I", "n", "v", "a", "l", "i", "d", " ", "d", "a", "t", "a", " ", "U", "R", "L", " ", "f", "o", "r", "m", "a", "t", ".", " ", "E", "x", "p", "e", "c", "t", "e", "d", ":", " ", "d", "a", "t", "a", ":", "i", "m", "a", "g", "e", "/", "*", ";", "b", "a", "s", "e", "6", "4", ",", ".", ".", ".">>,
                     Details([dataUrl |-> Str(dataUrl)])))
        ELSE IF \A n \in DOMAIN SUPPORTED_MIME_TYPES : SUPPORTED_MIME_TYPES[n] # mimeType
        THEN Err(InvalidInputError(<<"U", "n", "s", "u", "p", "p", "o", "r", "t", "e", "d", " ", "i", "m", "a", "g", "e", " ", "M", "I", "M", "E", " ", "t", "y", "p", "e", ":", " ">> \o mimeType,
                     Details([supportedTypes |->
                         Arr([n \in DOMAIN SUPPORTED_MIME_TYPES |->
                                 Str(SUPPORTED_MIME_TYPES[n])])])))
        ELSE Ok(mimeType)

\* new URL(input) for an input that starts with http:// or https://, holds no
\* userinfo, port, backslash, dot segment or control character: the host runs
\* to the first "/", "?" or "#" and is rejected (TypeError) when it is empty or
\* holds a space; the pathname runs from there to the first "?" or "#" and is
\* "/" when empty.
ParseUrl(input) ==
    LET colon == Min({k \in 1..Len(input) : input[k] = ":"})
        stops == {k \in (colon + 3)..Len(input) : input[k] \in {"/", "?", "#"}}
        hostEnd == IF stops = {} THEN Len(input) + 1 ELSE Min(stops)
        host == SubSeq(input, colon + 3, hostEnd - 1)
        cuts == {k \in hostEnd..Len(input) : input[k] \in {"?", "#"}}
        pathEnd == IF cuts = {} THEN Len(input) + 1 ELSE Min(cuts)
        path == SubSeq(input, hostEnd, pathEnd - 1)
    IN  [valid |-> host # Empty /\ \A k \in DOMAIN host : host[k] # SP,
         protocol |-> SubSeq(input, 1, colon),
         pathname |-> IF path = Empty THEN <<"/">> ELSE path]

isImageUrl(url) ==
    /\ ParseUrl(url).valid
    /\ \E n \in DOMAIN EXT_TO_MIME_TYPE :
          EndsWith(toLowerCase(ParseUrl(url).pathname), EXT_TO_MIME_TYPE[n][1])

Normalized(type, input, dataUrl, mimeType) ==
    [tag |-> "ok", type |-> type, originalInput |-> input, dataUrl |-> dataUrl,
     mimeType |-> mimeType, error |-> NoError]
NormalizeFailed(e) ==
    [tag |-> "error", type |-> "none", originalInput |-> Undefined,
     dataUrl |-> Undefined, mimeType |-> Undefined, error |-> e]

\* normalizeBase64Input: whatever is thrown in its body, an InvalidInputError
\* included, is caught and replaced by one ImageLoadError.
normalizeBase64Input(input) ==
    LET commas == {k \in 1..Len(input) : input[k] = ","}
        mimeType == getMimeTypeFromDataUrl(input)
        failed == NormalizeFailed(ImageLoadError(<<"I", "n", "v", "a", "l", "i", "d", " ", "b", "a", "s", "e", "6", "4", " ", "d", "a", "t", "a", " ", "U", "R", "L">>,
                                      Details([input |-> Str(input)])))
    IN  IF Cardinality(commas) # 1 THEN failed
        ELSE IF mimeType.tag = "error" THEN failed
        ELSE IF Max(commas) = Len(input) THEN failed
        ELSE Normalized("base64", input, input, mimeType.content)

\* normalizeUrlInput: the TypeError of new URL becomes an InvalidInputError;
\* whatever else is thrown in its body, the InvalidInputError of the strict
\* validation included, is caught and replaced by an ImageLoadError.
normalizeUrlInput(input, strictValidation) ==
    LET url == ParseUrl(input)
        failed == NormalizeFailed(ImageLoadError(<<"F", "a", "i", "l", "e", "d", " ", "t", "o", " ", "p", "r", "o", "c", "e", "s", "s", " ", "U", "R", "L", " ", "i", "n", "p", "u", "t">>,
                                      Details([input |-> Str(input)])))
    IN  IF ~url.valid
        THEN NormalizeFailed(InvalidInputError(<<"I", "n", "v", "a", "l", "i", "d", " ", "U", "R", "L", " ", "f", "o", "r", "m", "a", "t">>,
                                 Details([input |-> Str(input)])))
        ELSE IF ~StartsWith(url.protocol, <<"h", "t", "t", "p">>) THEN failed
        ELSE IF ~isImageUrl(input) /\ strictValidation THEN failed
        ELSE Normalized("url", input, input, <<"i", "m", "a", "g", "e", "/", "*">>)

\* The base64 text of the bytes 65, 66, 67.
Base64Data == <<"Q", "U", "J", "D">>

toHex(bytes) ==
    Concat([k \in DOMAIN bytes |->
               <<<<"0", "1", "2", "3", "4", "5", "6", "7", "8", "9", "a", "b", "c", "d", "e", "f">>[(bytes[k] \div 16) + 1],
                 <<"0", "1", "2", "3", "4", "5", "6", "7", "8", "9", "a", "b", "c", "d", "e", "f">>[(bytes[k] % 16) + 1]>>])

\* Buffer.toString("base64"): three bytes give four characters of the
\* alphabet, six bits each; a last group of one or two bytes is filled with
\* zero bits and "=".
toBase64(bytes) ==
    LET alphabet == <<"A", "B", "C", "D", "E", "F", "G", "H", "I", "J", "K", "L", "M", "N", "O", "P", "Q", "R", "S", "T", "U", "V", "W", "X", "Y", "Z", "a", "b", "c", "d", "e", "f", "g", "h", "i", "j", "k", "l", "m", "n", "o", "p", "q", "r", "s", "t", "u", "v", "w", "x", "y", "z", "0", "1", "2", "3", "4", "5", "6", "7", "8", "9", "+", "/">>
        n == Len(bytes)
        at(k) == IF k <= n THEN bytes[k] ELSE 0
    IN  Concat([g \in 1..((n + 2) \div 3) |->
                  <<alphabet[(at(3 * g - 2) \div 4) + 1],
                    alphabet[(at(3 * g - 2) % 4) * 16 + (at(3 * g - 1) \div 16) + 1],
                    IF 3 * g - 1 <= n
                    THEN alphabet[(at(3 * g - 1) % 16) * 4 + (at(3 * g) \div 64) + 1]
                    ELSE "=",
                    IF 3 * g <= n THEN alphabet[(at(3 * g) % 64) + 1] ELSE "=">>])

\* normalizeLocalInput, file being what readFile finds at the path, and bytes
\* the bytes it returns when the file is read: "missing",
\* "denied", "directory", "empty" or "readable".  ENOENT and EACCES get their own ImageLoadError;
\* whatever else is thrown in its body, the ImageLoadError of the empty file
\* and the InvalidInputError of getMimeTypeFromFileName included, is caught
\* and replaced by one ImageLoadError.
normalizeLocalInput(input, file, bytes) ==
    LET mimeType == getMimeTypeFromFileName(input)
        path == Details([path |-> Str(input)])
    IN  IF file = "missing"
        THEN NormalizeFailed(ImageLoadError(<<"F", "i", "l", "e", " ", "n", "o", "t", " ", "f", "o", "u", "n", "d">>, path))
        ELSE IF file = "denied"
        THEN NormalizeFailed(ImageLoadError(<<"P", "e", "r", "m", "i", "s", "s", "i", "o", "n", " ", "d", "e", "n", "i", "e", "d", " ", "r", "e", "a", "d", "i", "n", "g", " ", "f", "i", "l", "e">>, path))
        ELSE IF file \in {"directory", "empty"} \/ Len(bytes) = 0 \/ mimeType.tag = "error"
        THEN NormalizeFailed(ImageLoadError(<<"F", "a", "i", "l", "e", "d", " ", "t", "o", " ", "r", "e", "a", "d", " ", "l", "o", "c", "a", "l", " ", "f", "i", "l", "e">>, path))
        ELSE Normalized("local", input,
                        <<"d", "a", "t", "a", ":">> \o mimeType.content \o <<";", "b", "a", "s", "e", "6", "4", ",">> \o toBase64(bytes),
                        mimeType.content)

\* normalizeImageInput: the normalizers throw VisionMCPErrors only, which its
\* handler throws again.  strict is process.env.VISION_STRICT_URL_VALIDATION.
normalizeImageInput(input, strict, file, bytes) ==
    LET type == detectInputType(input)
        strictValidation == strict # <<"f", "a", "l", "s", "e">>
    IN  CASE type = "base64" -> normalizeBase64Input(input)
          [] type = "url" -> normalizeUrlInput(input, strictValidation)
          [] type = "local" -> normalizeLocalInput(input, file, bytes)

\* JSON.stringify on a string: quotes around it, and the quote, the backslash
\* and the line break escaped.
JsonString(text) ==
    <<"\"">> \o Concat([k \in DOMAIN text |->
                          CASE text[k] = "\"" -> <<"\\", "\"">>
                            [] text[k] = "\\" -> <<"\\", "\\">>
                            [] text[k] = NL -> <<"\\", "n">>
                            [] OTHER -> <<text[k]>>]) \o <<"\"">>

\* JSON.stringify on a detail value: every string of it is written as above.
\* The braces, keys and indentation are kept as structure.
RECURSIVE JsonValue(_)
JsonValue(x) ==
    CASE x.t = "str" -> Str(JsonString(x.v))
      [] x.t = "arr" -> Arr([k \in DOMAIN x.v |-> JsonValue(x.v[k])])
      [] x.t = "obj" -> Obj([k \in DOMAIN x.v |-> JsonValue(x.v[k])])
      [] OTHER -> x

toVisionMCPErrorWrapped(e) ==
    [name |-> "VisionMCPError", code |-> "UNKNOWN_ERROR", message |-> e.message,
     hasDetails |-> TRUE,
     details |-> Details([originalError |-> [t |-> "id", v |-> e.name]])]

\* toVisionMCPError(error), without context and outside debug verbosity.
toVisionMCPError(e) ==
    IF IsVisionMCPError(e) THEN e
    ELSE [name |-> "VisionMCPError", code |-> "UNKNOWN_ERROR", message |-> e.message,
          hasDetails |-> TRUE,
          details |-> Details([originalError |-> [t |-> "id", v |-> e.name]])]

\* toMCPErrorResponse(error): the text is JSON.stringify(error.toJSON()), the
\* message, the code and the details as stored (no detail map of the model
\* holds a stack key); the timestamp is the time the error was constructed,
\* as an ISO text, of which the model keeps that it is there.
toMCPErrorResponse(e) ==
    [tag |-> "response", isError |-> TRUE,
     text |-> [message |-> JsonString(e.message), code |-> e.code,
               timestamp |-> "toISOString",
               details |-> [k \in DetailKeys |-> JsonValue(e.details[k])]]]

(***************************************************************************)
(* SpecNormalize: normalizeImageInput applied to every input, setting of   *)
(* VISION_STRICT_URL_VALIDATION and state of the file, and the response    *)
(* the analyze_image handler makes of the error thrown.                    *)
(***************************************************************************)
ImageInputs ==
    {s \o h \o p \o q :
        s \in { <<"h", "t", "t", "p", ":", "/", "/">>, <<"h", "t", "t", "p", "s", ":", "/", "/">>},
        h \in {<<"x">>, Empty, <<"a", " ", "b">>},
        p \in {Empty, <<"/", "y">>, <<"/", "y", ".", "p", "n", "g">>, <<"/", "y", ".", "J", "P", "G">>, <<"/", "y", ".", "j", "p", "e", "g">>, <<"/", "y", ".", "w", "e", "b", "p">>, <<"/", "y", ".", "g", "i", "f">>,
               <<"/", "y", ".", "p", "n", "g", "/", "z">>},
        q \in {Empty, <<"?", "a", "p", "i", "_", "k", "e", "y", "=", "S", "E", "C", "R", "E", "T">>, <<"?", "f", "=", "a", ".", "p", "n", "g">>, <<"#", "a", ".", "p", "n", "g">>}}
    \cup
    {h \o m \o b \o d :
        h \in { <<"d", "a", "t", "a", ":", "i", "m", "a", "g", "e", "/">>, <<"D", "A", "T", "A", ":", "i", "m", "a", "g", "e", "/">>, <<"d", "a", "t", "a", ":", "t", "e", "x", "t", "/">>},
        m \in { <<"p", "n", "g">>, <<"j", "p", "e", "g">>, <<"j", "p", "g">>, <<"w", "e", "b", "p">>, <<"P", "N", "G">>, <<"g", "i", "f">>, Empty},
        b \in { <<";", "b", "a", "s", "e", "6", "4", ",">>, <<";", "c", "h", "a", "r", "s", "e", "t", "=", "u", "t", "f", "-", "8", ";", "b", "a", "s", "e", "6", "4", ",">>, <<";", "B", "A", "S", "E", "6", "4", ",">>, Empty},
        d \in {Base64Data, Empty, <<"Q", "U", ",", "J", "D">>}}
    \cup
    { <<"/", "t", "m", "p", "/", "a", ".", "p", "n", "g">>, <<"/", "t", "m", "p", "/", "a", ".", "j", "p", "g">>, <<"/", "t", "m", "p", "/", "a", ".", "J", "P", "E", "G">>, <<"/", "t", "m", "p", "/", "a", ".", "w", "e", "b", "p">>, <<"/", "t", "m", "p", "/", "a", ".", "g", "i", "f">>,
     <<"/", "t", "m", "p", "/", "a">>, <<"a", ".", "b", "/", "c">>, <<"p", "h", "o", "t", "o", ".", "t", "a", "r", ".", "p", "n", "g">>, <<"c", "o", "n", "s", "t", "r", "u", "c", "t", "o", "r">>,
     <<"/", "t", "m", "p", "/", "a", ".", "p", "n", "g", "?", "a", "p", "i", "_", "k", "e", "y", "=", "S", "E", "C", "R", "E", "T">>, <<"H", "T", "T", "P", ":", "/", "/", "x", "/", "y", ".", "p", "n", "g">>, <<" ", "h", "t", "t", "p", ":", "/", "/", "x", "/", "y", ".", "p", "n", "g">>,
     <<"f", "t", "p", ":", "/", "/", "x", "/", "y", ".", "p", "n", "g">>, <<"x", "h", "t", "t", "p", "s", ":", "/", "/", "x", "/", "y", ".", "p", "n", "g">>, Empty}

\* The empty path names no file.
InitNormalize ==
    /\ fpc = "ready"
    /\ fin \in {[input |-> i, strict |-> s, file |-> f] :
                  i \in ImageInputs,
                  s \in {Undefined, <<"f", "a", "l", "s", "e">>, <<"t", "r", "u", "e">>, <<"F", "A", "L", "S", "E">>},
                  f \in {"missing", "denied", "directory", "empty", "readable"}}
    /\ fin.input = Empty => fin.file = "missing"
    /\ fout = Undefined
    /\ vendor = "glm"
    /\ cfgMaxRetries = NotConfigured
    /\ RetryIdle
    /\ ProcessIdle

NormalizeImageInput ==
    /\ fpc = "ready"
    /\ fout' = normalizeImageInput(fin.input, fin.strict, fin.file,
                                    IF fin.file = "readable" THEN <<65, 66, 67>> ELSE <<>>)
    /\ fpc' = "done"
    /\ UNCHANGED <<fin, vendor, cfgMaxRetries, rvars, svars>>

\* The catch of the analyze_image handler.
AnalyzeImageFails ==
    /\ fpc = "done"
    /\ fout.tag = "error"
    /\ fout' = toMCPErrorResponse(toVisionMCPError(fout.error))
    /\ fpc' = "responded"
    /\ UNCHANGED <<fin, vendor, cfgMaxRetries, rvars, svars>>

NextNormalize == NormalizeImageInput \/ AnalyzeImageFails

SpecNormalize == InitNormalize /\ [][NextNormalize]_vars

(***************************************************************************)
(* SpecDetect: detectInputType is called on one input.                     *)
(***************************************************************************)
InitDetect ==
    /\ fpc = "ready"
    /\ fin \in ImageInputs
    /\ fout = Undefined
    /\ vendor = "glm"
    /\ cfgMaxRetries = NotConfigured
    /\ RetryIdle
    /\ ProcessIdle

DetectInputType ==
    /\ fpc = "ready"
    /\ fout' = detectInputType(fin)
    /\ fpc' = "done"
    /\ UNCHANGED <<fin, vendor, cfgMaxRetries, rvars, svars>>

SpecDetect == InitDetect /\ [][DetectInputType]_vars

(***************************************************************************)
(* SpecLocal: normalizeImageInput applied to the path of a file that can   *)
(* be read, fin holding the path and the bytes of the file.                *)
(***************************************************************************)
InitLocal ==
    /\ fpc = "ready"
    /\ fin \in {[input |-> i, bytes |-> b] :
                  i \in { <<"/", "t", "m", "p", "/", "a", ".", "p", "n", "g">>, <<"/", "t", "m", "p", "/", "a", ".", "j", "p", "g">>, <<"/", "t", "m", "p", "/", "a", ".", "J", "P", "E", "G">>, <<"/", "t", "m", "p", "/", "a", ".", "w", "e", "b", "p">>,
                         <<"p", "h", "o", "t", "o", ".", "t", "a", "r", ".", "p", "n", "g">>, <<"a", ".", "b", "/", "c", ".", "j", "p", "e", "g">>, <<"/", "t", "m", "p", "/", "a", ".", "g", "i", "f">>},
                  b \in UNION { [1..n -> {0, 65, 251, 255}] : n \in 0..MaxBytes }}
    /\ fout = Undefined
    /\ vendor = "glm"
    /\ cfgMaxRetries = NotConfigured
    /\ RetryIdle
    /\ ProcessIdle

NormalizeLocalFile ==
    /\ fpc = "ready"
    /\ fout' = normalizeImageInput(fin.input, Undefined,
                                    IF fin.bytes = <<>> THEN "empty" ELSE "readable",
                                    fin.bytes)
    /\ fpc' = "done"
    /\ UNCHANGED <<fin, vendor, cfgMaxRetries, rvars, svars>>

SpecLocal == InitLocal /\ [][NormalizeLocalFile]_vars

(***************************************************************************)
(* SpecSanitize: a ModelAPIError is constructed on a detail map that holds *)
(* one URL text, at the top level, in an array or in a nested object.  The *)
(* URL is https://x/y followed by up to MaxParams query parameters and a   *)
(* suffix; the first parameter follows "?" or "&", the others "&".         *)
(***************************************************************************)
SecretValue == <<"S", "E", "C", "R", "E", "T", "1", "2", "3">>
ParamNames ==
    {CredentialParams[n] : n \in DOMAIN CredentialParams}
        \cup { <<"A", "P", "I", "_", "K", "e", "y">>, <<"m", "o", "n", "k", "e", "y">>, <<"k", "e", "y", "s">>}
QueryParams(first) ==
    {[sep |-> s, name |-> n, value |-> v] :
        s \in (IF first THEN {"?", "&"} ELSE {"&"}), n \in ParamNames,
        v \in {SecretValue, Empty}}
ParamLists ==
    UNION { {l \in [1..k -> QueryParams(TRUE)] :
               \A j \in 2..k : l[j] \in QueryParams(FALSE)} : k \in 1..MaxParams}
UrlText(params, suffix) ==
    <<"h", "t", "t", "p", "s", ":", "/", "/", "x", "/", "y">>
        \o Concat([j \in DOMAIN params |->
                     <<params[j].sep>> \o params[j].name \o <<"=">> \o params[j].value])
        \o suffix
\* Where the detail map holds the text.
DetailShapes == {"top", "array", "object", "objectInArray", "arrayInObject",
                 "arrayInArray"}
ShapedDetails(shape, text) ==
    CASE shape = "top" -> Details([endpoint |-> Str(text)])
      [] shape = "array" -> Details([errorDetails |-> Arr(<<Num(1), Str(text)>>)])
      [] shape = "object" -> Details([errorDetails |-> Obj([url |-> Str(text)])])
      [] shape = "objectInArray" ->
             Details([errorDetails |-> Arr(<<Obj([url |-> Str(text)])>>)])
      [] shape = "arrayInObject" ->
             Details([errorDetails |-> Obj([urls |-> Arr(<<Str(text)>>)])])
      [] shape = "arrayInArray" ->
             Details([errorDetails |-> Arr(<<Arr(<<Str(text)>>)>>)])

InitSanitize ==
    /\ fpc = "ready"
    /\ fin \in {[shape |-> sh, params |-> p, suffix |-> x,
                 details |-> ShapedDetails(sh, UrlText(p, x))] :
                   sh \in DetailShapes, p \in ParamLists, x \in {Empty, <<" ", "f", "a", "i", "l", "e", "d">>}}
    /\ fout = Undefined
    /\ vendor = "glm"
    /\ cfgMaxRetries = NotConfigured
    /\ RetryIdle
    /\ ProcessIdle

\* new ModelAPIError(message, details)
NewModelAPIError ==
    /\ fpc = "ready"
    /\ fout' = ModelAPIError(<<"R", "e", "q", "u", "e", "s", "t", " ", "f", "a", "i", "l", "e", "d">>, fin.details)
    /\ fpc' = "done"
    /\ UNCHANGED <<fin, vendor, cfgMaxRetries, rvars, svars>>

SpecSanitize == InitSanitize /\ [][NewModelAPIError]_vars

(***************************************************************************)
(* SpecConcurrent: NumRequests withRetry calls in flight on one adapter.   *)
(* The adapter holds its configuration only; the controller, the timer,    *)
(* attempt and lastError are locals of each call.  A call is a record of   *)
(* its locals, of the answers of the server and the firings of its own     *)
(* timer it has met (seen), and of how it settled.                         *)
(***************************************************************************)
Requests == 1..NumRequests

IdleRequest ==
    [pc |-> "idle", attempt |-> 0, maxRetries |-> 0, lastError |-> NoError,
     signal |-> "none", timer |-> "none", abort |-> NoEvent, seen |-> <<>>,
     outcome |-> NoOutcome]

\* What the server answers to an attempt, and where the abort finds it.
ServerAnswers ==
    {EventOf("ok", 200, Empty, NoHeader, "none",
             [candidate |-> TRUE, parts |-> <<ACat \o ACat>>, reasoning |-> Undefined,
              thinking |-> Undefined]),
     EventOf("http", 500, PlainBody, NoHeader, "none", NoPayload),
     EventOf("http", 404, PlainBody, NoHeader, "none", NoPayload)}
AbortPoints ==
    {EventOf("timeout", 0, Empty, NoHeader, "fetch", NoPayload),
     EventOf("timeout", 200, Empty, NoHeader, "body", NoPayload)}

\* Every controller.abort() of a shared controller, the one of the latest call.
AbortLatest(r) == Max({q \in Requests : reqs[q].pc = "calling"})

\* () => controller.abort(): the controller is the one of the attempt that
\* armed the timer.
AbortTarget(r) == r

InitConcurrent ==
    /\ fpc = "off"
    /\ fin = Undefined
    /\ fout = Undefined
    /\ vendor \in Vendors
    /\ cfgMaxRetries = 1
    /\ RetryIdle
    /\ reqs = [r \in Requests |-> IdleRequest]
    /\ providers = <<>>
    /\ firstRegistered = <<>>
    /\ toolInstance = NoTool
    /\ constructed = <<>>
    /\ handed = <<>>
    /\ invoked = <<>>

\* withRetry is entered: attempt 0 gets its controller and its timer.
pvars == <<providers, firstRegistered, toolInstance, constructed, handed,
          invoked>>

StartRequest(r) ==
    /\ UNCHANGED <<fvars, vendor, cfgMaxRetries, rvars, pvars>>
    /\ reqs[r].pc = "idle"
    /\ reqs' = [reqs EXCEPT ![r] =
                   [@ EXCEPT !.pc = "calling", !.attempt = 0,
                             !.maxRetries = EffectiveMaxRetries(cfgMaxRetries),
                             !.signal = "live", !.timer = "armed"]]

\* The timer of the attempt fires: its callback aborts the controller.
TimerFires(r) ==
    /\ UNCHANGED <<fvars, vendor, cfgMaxRetries, rvars, pvars>>
    /\ reqs[r].pc = "calling"
    /\ reqs[r].timer = "armed"
    /\ \E ev \in AbortPoints :
          reqs' = [reqs EXCEPT ![r].timer = "fired",
                               ![r].seen = Append(@, ev),
                               ![AbortTarget(r)].signal = "aborted",
                               ![AbortTarget(r)].abort = ev]

\* The catch block of the loop and what follows the loop, on the locals of
\* one call.
RequestAfterError(req, e) ==
    IF e.name = "AbortError"
    THEN [req EXCEPT !.lastError = e, !.pc = "thrown",
              !.outcome = Thrown(TimeoutError(<<"R", "e", "q", "u", "e", "s", "t", " ", "t", "i", "m", "e", "d", " ", "o", "u", "t", " ", "a", "f", "t", "e", "r", " ">>
                                     \o Digits(DefaultTimeout) \o <<"m", "s">>))]
    ELSE IF HasNonRetryableStatus(e)
    THEN [req EXCEPT !.lastError = e, !.pc = "thrown", !.outcome = Thrown(e)]
    ELSE IF req.attempt = req.maxRetries
    THEN [req EXCEPT !.lastError = e, !.pc = "thrown",
              !.outcome = Thrown(ExhaustedError(e, req.maxRetries))]
    ELSE [req EXCEPT !.lastError = e, !.pc = "backoff"]

\* The operation of the attempt settles on ev, the answer of the server or,
\* its signal aborted, the rejection of the abort; the timer is cleared.
SettleRequest(r, ev) ==
    /\ UNCHANGED <<fvars, vendor, cfgMaxRetries, rvars, pvars>>
    /\ reqs[r].pc = "calling"
    /\ IF reqs[r].signal = "aborted" THEN ev = reqs[r].abort
       ELSE ev \in ServerAnswers
    /\ \E res \in {Operation(vendor, ev)} :
          \E req \in {[reqs[r] EXCEPT
                          !.timer = IF @ = "armed" THEN "cleared" ELSE @,
                          !.seen = IF reqs[r].signal = "aborted" THEN @
                                   ELSE Append(@, ev)]} :
             reqs' = [reqs EXCEPT ![r] =
                         IF res.tag = "ok"
                         THEN [req EXCEPT !.pc = "returned",
                                          !.outcome = Returned(res)]
                         ELSE RequestAfterError(req, res.error)]

OperationSettles ==
    \E r \in Requests, ev \in ServerAnswers \cup AbortPoints : SettleRequest(r, ev)

\* The backoff wait is over: the next attempt gets its own controller and
\* timer.
NextAttempt(r) ==
    /\ UNCHANGED <<fvars, vendor, cfgMaxRetries, rvars, pvars>>
    /\ reqs[r].pc = "backoff"
    /\ reqs' = [reqs EXCEPT ![r] =
                   [@ EXCEPT !.pc = "calling", !.attempt = @ + 1,
                             !.signal = "live", !.timer = "armed",
                             !.abort = NoEvent]]

NextConcurrent ==
    \/ \E r \in Requests : StartRequest(r)
    \/ \E r \in Requests : TimerFires(r)
    \/ OperationSettles
    \/ \E r \in Requests : NextAttempt(r)

SpecConcurrent == InitConcurrent /\ [][NextConcurrent]_vars

(***************************************************************************)
(* SpecRegistry: the exported ProviderRegistry under every sequence of     *)
(* register calls.  get, has and getSupportedTypes only read the Map.      *)
(***************************************************************************)
\* A definition is told from another of the same type by its displayName.
ProviderDefinitions ==
    {[type |-> t, displayName |-> n] : t \in Vendors, n \in {"built-in", "other"}}

\* Map.prototype.set
MapSet(map, key, value) ==
    [k \in DOMAIN map \cup {key} |-> IF k = key THEN value ELSE map[k]]

InitRegistry ==
    /\ fpc = "off"
    /\ fin = Undefined
    /\ fout = Undefined
    /\ vendor = "glm"
    /\ cfgMaxRetries = NotConfigured
    /\ RetryIdle
    /\ ProcessIdle

\* registry.register(provider)
Register ==
    /\ \E provider \in ProviderDefinitions :
          /\ providers' = MapSet(providers, provider.type, provider)
          /\ firstRegistered' =
                IF provider.type \in DOMAIN firstRegistered THEN firstRegistered
                ELSE MapSet(firstRegistered, provider.type, provider)
    /\ UNCHANGED <<fvars, vendor, cfgMaxRetries, rvars, reqs, toolInstance,
                   constructed, handed, invoked>>

SpecRegistry == InitRegistry /\ [][Register]_vars

(***************************************************************************)
(* SpecTool: getVisionTool and VisionTool.analyze called in every order,   *)
(* in a process whose registry holds the built-in providers.  fin is the   *)
(* environment of the process.  A ModelConfig is a record [type, apiKey,   *)
(* timeout, maxRetries]: apiKey is whether a key is set, timeout and       *)
(* maxRetries are NotConfigured when not a number.  A VisionTool is a      *)
(* record [id, modelConfig, adapter], id telling one instance from another.*)
(***************************************************************************)
ModelConfigError(message) ==
    [name |-> "ModelConfigError", code |-> "MODEL_CONFIG_ERROR",
     message |-> <<"M", "o", "d", "e", "l", " ", "c", "o", "n", "f", "i", "g", "u", "r", "a", "t", "i", "o", "n", " ", "e", "r", "r", "o", "r", ":", " ">> \o message,
     hasDetails |-> FALSE, details |-> NoEntries]

\* loadModelConfig on the environment env = [type, apiKey, timeout]: type is
\* "none" and timeout NotConfigured when the variable is not set.  The names
\* of the types are left out of the messages.
loadModelConfig(env) ==
    IF env.type = "none"
    THEN Err(ModelConfigError(<<"M", "i", "s", "s", "i", "n", "g", " ", "V", "I", "S", "I", "O", "N", "_", "M", "O", "D", "E", "L", "_", "T", "Y", "P", "E", " ", "e", "n", "v", "i", "r", "o", "n", "m", "e", "n", "t", " ", "v", "a", "r", "i", "a", "b", "l", "e">>))
    ELSE IF env.type \notin DOMAIN providers
    THEN Err(ModelConfigError(<<"U", "n", "s", "u", "p", "p", "o", "r", "t", "e", "d", " ", "m", "o", "d", "e", "l", " ", "t", "y", "p", "e">>))
    ELSE IF ~env.apiKey
    THEN Err(ModelConfigError(<<"M", "i", "s", "s", "i", "n", "g", " ", "V", "I", "S", "I", "O", "N", "_", "A", "P", "I", "_", "K", "E", "Y", " ", "e", "n", "v", "i", "r", "o", "n", "m", "e", "n", "t", " ", "v", "a", "r", "i", "a", "b", "l", "e">>))
    ELSE Ok([type |-> env.type, apiKey |-> TRUE,
             timeout |-> IF env.timeout = NotConfigured THEN DefaultTimeout
                         ELSE env.timeout,
             maxRetries |-> DefaultMaxRetries])

\* validateModelConfig: the checks of name and baseUrl, which every
\* configuration of the model passes, are left out.
validateModelConfig(config) ==
    /\ config.apiKey
    /\ config.timeout # NotConfigured /\ config.timeout > 0
    /\ config.maxRetries # NotConfigured /\ config.maxRetries >= 0

\* new VisionTool(config), the id-th instance: the tool, or the error thrown.
NewVisionTool(config, env, id) ==
    LET loaded == IF config # NoConfig THEN Ok(config) ELSE loadModelConfig(env)
    IN  IF loaded.tag = "error" THEN loaded
        ELSE IF ~validateModelConfig(loaded.content)
        THEN Err(ModelConfigError(<<"T", "i", "m", "e", "o", "u", "t", " ", "m", "u", "s", "t", " ", "b", "e", " ", "a", " ", "p", "o", "s", "i", "t", "i", "v", "e", " ", "n", "u", "m", "b", "e", "r">>))
        ELSE IF loaded.content.type \notin DOMAIN providers
        THEN Err(ModelConfigError(<<"U", "n", "s", "u", "p", "p", "o", "r", "t", "e", "d", " ", "m", "o", "d", "e", "l", " ", "t", "y", "p", "e">>))
        ELSE Ok([id |-> id, modelConfig |-> loaded.content,
                 adapter |-> [id |-> id, type |-> loaded.content.type]])

ConstructAlways(instance) == TRUE

\* if (!toolInstance): construct.
MustConstruct(instance) == instance = NoTool

\* The config argument of getVisionTool: none, or one the caller built.
ToolConfigs ==
    {NoConfig,
     [type |-> "claude", apiKey |-> TRUE, timeout |-> 30000, maxRetries |-> 1],
     [type |-> "gemini", apiKey |-> TRUE, timeout |-> 0, maxRetries |-> 1],
     [type |-> "unknown", apiKey |-> TRUE, timeout |-> 30000, maxRetries |-> 1]}

InitTool ==
    /\ fpc = "off"
    /\ fin \in {[type |-> t, apiKey |-> k, timeout |-> x] :
                  t \in {"none", "glm", "unknown"}, k \in BOOLEAN,
                  x \in {NotConfigured, 0, 30000}}
    /\ fout = Undefined
    /\ vendor = "glm"
    /\ cfgMaxRetries = NotConfigured
    /\ RetryIdle
    /\ reqs = <<>>
    /\ providers = [t \in Vendors |-> [type |-> t, displayName |-> "built-in"]]
    /\ firstRegistered = providers
    /\ toolInstance = NoTool
    /\ constructed = <<>>
    /\ handed = <<>>
    /\ invoked = <<>>

\* getVisionTool(config)
GetVisionTool ==
    /\ Len(handed) < MaxCalls
    /\ \E config \in ToolConfigs :
          IF MustConstruct(toolInstance)
          THEN \E made \in {NewVisionTool(config, fin, Len(constructed) + 1)} :
                  IF made.tag = "ok"
                  THEN /\ toolInstance' = made.content
                       /\ constructed' = Append(constructed, made.content)
                       /\ handed' = Append(handed, [call |-> "getVisionTool",
                                                    arg |-> config,
                                                    tool |-> made.content])
                       /\ fout' = Undefined
                  ELSE /\ fout' = made
                       /\ UNCHANGED <<toolInstance, constructed, handed>>
          ELSE /\ handed' = Append(handed, [call |-> "getVisionTool",
                                            arg |-> config, tool |-> toolInstance])
               /\ fout' = Undefined
               /\ UNCHANGED <<toolInstance, constructed>>
    /\ UNCHANGED <<fpc, fin, vendor, cfgMaxRetries, rvars, reqs, providers,
                   firstRegistered, invoked>>

\* visionTool.analyze(input), on the tool getVisionTool returned: it calls
\* this.adapter.
Analyze ==
    /\ Len(handed) < MaxCalls
    /\ handed # <<>>
    /\ \E k \in DOMAIN handed :
          handed' = Append(handed, [call |-> "analyze", arg |-> NoConfig,
                                    tool |-> handed[k].tool])
    /\ UNCHANGED <<fvars, vendor, cfgMaxRetries, rvars, reqs, providers,
                   firstRegistered, toolInstance, constructed, invoked>>

NextTool == GetVisionTool \/ Analyze

SpecTool == InitTool /\ [][NextTool]_vars

(***************************************************************************)
(* The prompt templates.  The text of a template is its id in brackets.    *)
(***************************************************************************)
SYSTEM_PROMPT_TEMPLATES ==
    { <<"g", "e", "n", "e", "r", "a", "l", "-", "d", "e", "s", "c", "r", "i", "p", "t", "i", "o", "n">>, <<"u", "i", "-", "a", "n", "a", "l", "y", "s", "i", "s">>, <<"o", "b", "j", "e", "c", "t", "-", "d", "e", "t", "e", "c", "t", "i", "o", "n">>, <<"o", "c", "r">>,
      <<"s", "t", "r", "u", "c", "t", "u", "r", "e", "d", "-", "e", "x", "t", "r", "a", "c", "t", "i", "o", "n">>}

autoSelectTemplate(prompt) ==
    LET has(word) == Includes(toLowerCase(prompt), word)
    IN  IF has(<<"u", "i">>) \/ has(<<"i", "n", "t", "e", "r", "f", "a", "c", "e">>) \/ has(<<"p", "r", "o", "t", "o", "t", "y", "p", "e">>) THEN <<"u", "i", "-", "a", "n", "a", "l", "y", "s", "i", "s">>
        ELSE IF has(<<"d", "e", "t", "e", "c", "t">>) \/ has(<<"l", "o", "c", "a", "t", "e">>) \/ has(<<"p", "o", "s", "i", "t", "i", "o", "n">>)
        THEN <<"o", "b", "j", "e", "c", "t", "-", "d", "e", "t", "e", "c", "t", "i", "o", "n">>
        ELSE IF has(<<"o", "c", "r">>) \/ has(<<"t", "e", "x", "t">>) THEN <<"o", "c", "r">>
        ELSE IF has(<<"j", "s", "o", "n">>) \/ has(<<"s", "t", "r", "u", "c", "t", "u", "r", "e", "d">>) \/ has(<<"s", "c", "h", "e", "m", "a">>)
        THEN <<"s", "t", "r", "u", "c", "t", "u", "r", "e", "d", "-", "e", "x", "t", "r", "a", "c", "t", "i", "o", "n">>
        ELSE <<"g", "e", "n", "e", "r", "a", "l", "-", "d", "e", "s", "c", "r", "i", "p", "t", "i", "o", "n">>

\* getSystemPrompt(templateId): SYSTEM_PROMPT_TEMPLATES is an object literal,
\* so the name of a member of Object.prototype reads that member, which is
\* truthy and has no template property: the prompt is then undefined.
getSystemPrompt(templateId) ==
    IF templateId \in SYSTEM_PROMPT_TEMPLATES
    THEN Ok(<<"[">> \o templateId \o <<"]">>)
    ELSE IF templateId \in InheritedKeys THEN Ok(<<"u", "n", "d", "e", "f", "i", "n", "e", "d">>)
    ELSE Err(PlainError("Error", <<"U", "n", "k", "n", "o", "w", "n", " ", "t", "e", "m", "p", "l", "a", "t", "e", " ", "I", "D", ":", " ">> \o templateId))

\* buildPrompt(templateId, userPrompt)
buildPrompt(templateId, userPrompt) ==
    LET systemPrompt == getSystemPrompt(IF Truthy(templateId) THEN templateId
                                        ELSE autoSelectTemplate(userPrompt))
    IN  IF systemPrompt.tag = "error" THEN systemPrompt
        ELSE Ok(systemPrompt.content \o <<NL, NL>> \o <<"=", "=", "=", " ", "U", "s", "e", "r", " ", "R", "e", "q", "u", "e", "s", "t", " ", "=", "=", "=">>
                \o <<NL>> \o userPrompt)

(***************************************************************************)
(* SpecAnalyze: one analyze_image request, from the handler through        *)
(* VisionTool.analyze and the withRetry call of the adapter to the         *)
(* response.  fin is the request, with the state of the file at a local    *)
(* path and the model name of the configuration; fout holds the locals of  *)
(* analyze while the adapter is called, and the response at the end.       *)
(* The request has passed the schema of the tool: image and prompt are     *)
(* strings, output_format is text, json or absent.                         *)
(***************************************************************************)
AnalyzeRequests ==
    {[image |-> i, prompt |-> <<"d", "e", "s", "c", "r", "i", "b", "e">>, output_format |-> f, template |-> t,
      file |-> "readable", modelName |-> <<"m", "o", "d", "e", "l", "-", "x">>] :
        i \in { <<"d", "a", "t", "a", ":", "i", "m", "a", "g", "e", "/", "p", "n", "g", ";", "b", "a", "s", "e", "6", "4", ",", "A", "A", "A", "A">>, <<"h", "t", "t", "p", "s", ":", "/", "/", "x", "/", "y", ".", "j", "p", "g">>, <<"/", "t", "m", "p", "/", "a", ".", "w", "e", "b", "p">>,
               <<"d", "a", "t", "a", ":", "i", "m", "a", "g", "e", "/", "g", "i", "f", ";", "b", "a", "s", "e", "6", "4", ",", "A", "A", "A", "A">>, <<"h", "t", "t", "p", "s", ":", "/", "/", "x", "/", "y", "?", "a", "p", "i", "_", "k", "e", "y", "=", "S", "E", "C", "R", "E", "T">>,
               <<"/", "t", "m", "p", "/", "a", ".", "g", "i", "f">>},
        f \in {Undefined, <<"j", "s", "o", "n">>},
        t \in {Undefined, Empty, <<"o", "c", "r">>, <<"n", "o", "p", "e">>, <<"c", "o", "n", "s", "t", "r", "u", "c", "t", "o", "r">>}}
    \cup {[image |-> <<"/", "t", "m", "p", "/", "a", ".", "p", "n", "g">>, prompt |-> <<"r", "e", "a", "d", " ", "t", "h", "e", " ", "U", "I">>,
           output_format |-> <<"t", "e", "x", "t">>, template |-> Undefined, file |-> "missing",
           modelName |-> <<"m", "o", "d", "e", "l", "-", "x">>]}

InitAnalyze ==
    /\ fpc = "ready"
    /\ fin \in AnalyzeRequests
    /\ fout = Undefined
    /\ vendor \in {"glm", "claude", "gemini"}
    /\ cfgMaxRetries = 1
    /\ RetryIdle
    /\ ProcessIdle

\* The catch of the analyze_image handler: the response made of the error.
\* thrown is the error as it was caught.
ErrorResponse(e) ==
    [tag |-> "response", isError |-> TRUE, thrown |-> e,
     text |-> toMCPErrorResponse(toVisionMCPError(e)).text]

\* The handler and VisionTool.analyze up to the call of the adapter.
AnalyzeImage ==
    /\ fpc = "ready"
    /\ \E normalizedImage \in {normalizeImageInput(fin.image, Undefined, fin.file,
                                                   <<65, 66, 67>>)},
          fullPrompt \in {buildPrompt(fin.template, fin.prompt)} :
          IF normalizedImage.tag = "error"
          THEN /\ fout' = ErrorResponse(normalizedImage.error)
               /\ fpc' = "responded"
               /\ UNCHANGED invoked
          ELSE IF fullPrompt.tag = "error"
          THEN /\ fout' = ErrorResponse(fullPrompt.error)
               /\ fpc' = "responded"
               /\ UNCHANGED invoked
          ELSE /\ fout' = [tag |-> "pending", normalizedImage |-> normalizedImage]
               /\ fpc' = "calling"
               /\ invoked' = Append(invoked, [imageData |-> normalizedImage.dataUrl,
                                              prompt |-> fullPrompt.content])
    /\ UNCHANGED <<fin, vendor, cfgMaxRetries, rvars, reqs, providers,
                   firstRegistered, toolInstance, constructed, handed>>

\* analyzeWithResponse enters withRetry.
AdapterStarts == fpc = "calling" /\ Start

\* withRetry has settled: analyze builds its result, or throws the error on,
\* and the handler responds.
AnalyzeImageSettles ==
    /\ fpc = "calling"
    /\ pc \in {"returned", "thrown"}
    /\ fout' = IF pc = "thrown" THEN ErrorResponse(outcome.error)
               ELSE [tag |-> "response", isError |-> FALSE,
                     text |-> outcome.value.content,
                     result |->
                        [content |-> outcome.value.content,
                         format |-> IF fin.output_format = Undefined THEN <<"t", "e", "x", "t">>
                                    ELSE fin.output_format,
                         metadata |->
                            [modelType |-> vendor,
                             modelName |-> fin.modelName,
                             imageFormat |-> fout.normalizedImage.mimeType,
                             imageSize |-> Len(fout.normalizedImage.dataUrl)]]]
    /\ fpc' = "responded"
    /\ UNCHANGED <<fin, vendor, cfgMaxRetries, rvars, svars>>

NextAnalyze ==
    \/ AnalyzeImage
    \/ AdapterStarts
    \/ OperationReturns
    \/ ServerRefuses
    \/ FetchFails
    \/ BodyNotJson
    \/ AttemptTimesOut
    \/ BackoffElapsed
    \/ AnalyzeImageSettles

SpecAnalyze == InitAnalyze /\ [][NextAnalyze]_vars

(***************************************************************************)
(* SpecMask: maskApiKey applied to an API key, and the get_config request  *)
(* of a process whose configuration holds the key.  fin is the key.        *)
(***************************************************************************)
maskApiKeyUncapped(apiKey) ==
    IF ~Truthy(apiKey) \/ Len(apiKey) <= 8 THEN <<"*", "*", "*">>
    ELSE LET visible == Len(apiKey) \div 4
         IN  SubSeq(apiKey, 1, visible)
             \o [k \in 1..Max({1, Len(apiKey) - visible * 2}) |-> "*"]
             \o SubSeq(apiKey, Len(apiKey) - visible + 1, Len(apiKey))

maskApiKey(apiKey) ==
    IF ~Truthy(apiKey) \/ Len(apiKey) <= 8 THEN <<"*", "*", "*">>
    ELSE LET visible == Min({4, Len(apiKey) \div 4})
         IN  SubSeq(apiKey, 1, visible)
             \o [k \in 1..Max({1, Len(apiKey) - visible * 2}) |-> "*"]
             \o SubSeq(apiKey, Len(apiKey) - visible + 1, Len(apiKey))

\* The keys explored: every key of up to MaxShortKey characters over k and *,
\* and the prefixes of a key of 24 different characters.
InitMask ==
    /\ fpc = "ready"
    /\ fin \in UNION { [1..n -> {"k", "*"}] : n \in 0..MaxShortKey }
               \cup {SubSeq(<<"s", "k", "-", "0", "1", "2", "3", "4", "5", "6", "7", "8", "9", "a", "b", "c", "d", "e", "f", "g", "h", "i", "j", "k">>, 1, n) : n \in 1..24}
    /\ fout = Undefined
    /\ vendor = "glm"
    /\ cfgMaxRetries = NotConfigured
    /\ RetryIdle
    /\ ProcessIdle

MaskApiKey ==
    /\ fpc = "ready"
    /\ fout' = [apiKey |-> maskApiKey(fin)]
    /\ fpc' = "masked"
    /\ UNCHANGED <<fin, vendor, cfgMaxRetries, rvars, svars>>

\* The get_config handler; the tool was constructed, so the key is not empty.
GetConfig ==
    /\ fpc = "ready"
    /\ fin # Empty
    /\ fout' = [type |-> vendor, name |-> <<"m", "o", "d", "e", "l", "-", "x">>, baseUrl |-> BaseUrl,
                apiKey |-> maskApiKey(fin), timeout |-> DefaultTimeout,
                maxRetries |-> DefaultMaxRetries]
    /\ fpc' = "responded"
    /\ UNCHANGED <<fin, vendor, cfgMaxRetries, rvars, svars>>

NextMask == MaskApiKey \/ GetConfig

SpecMask == InitMask /\ [][NextMask]_vars

(***************************************************************************)
(* SpecDownload: one attempt of withRetry around GeminiAdapter's           *)
(* callGeminiAPI, with a clock.  fin is the image and the configured       *)
(* timeout; fout holds the clock (in ticks of TickMs), whether the         *)
(* attempt's signal has fired, and the two outbound calls.                 *)
(***************************************************************************)
DOWNLOAD_TIMEOUT == 30000
\* The clock advances by a third of the download timeout.
TickMs == DOWNLOAD_TIMEOUT \div 3

InitDownload ==
    /\ fpc = "ready"
    /\ fin \in [imageData : { <<"h", "t", "t", "p", ":", "/", "/", "h", "/", "a", ".", "p", "n", "g">>, <<"h", "t", "t", "p", "s", ":", "/", "/", "h", "/", "a", ".", "p", "n", "g">>,
                              <<"d", "a", "t", "a", ":", "i", "m", "a", "g", "e", "/", "p", "n", "g", ";", "b", "a", "s", "e", "6", "4", ",">>
                                  \o Base64Data,
                              Base64Data},
                timeout : {10000, 20000, 30000, DefaultTimeout}]
    /\ fout = Undefined
    /\ vendor = "gemini"
    /\ cfgMaxRetries = NotConfigured
    /\ RetryIdle
    /\ ProcessIdle

\* withRetry starts the attempt's timer and invokes the operation;
\* callGeminiAPI builds the request first: buildImagePart downloads an
\* http(s) image, and any other image goes straight to the generateContent
\* call, which carries the attempt's signal.
AttemptStarts ==
    /\ fpc = "ready"
    /\ LET isUrl == StartsWith(fin.imageData, <<"h", "t", "t", "p", ":", "/", "/">>)
                    \/ StartsWith(fin.imageData, <<"h", "t", "t", "p", "s", ":", "/", "/">>)
       IN  /\ fout' = [clock |-> 0, aborted |-> FALSE,
                       download |-> IF isUrl THEN "inflight" ELSE "none",
                       api |-> IF isUrl THEN "none" ELSE "inflight",
                       message |-> Empty]
           /\ fpc' = IF isUrl THEN "downloading" ELSE "calling"
    /\ UNCHANGED <<fin, vendor, cfgMaxRetries, rvars, svars>>

\* Time passes while a call is in flight; a timer that is due fires first.
Tick ==
    /\ fpc \in {"downloading", "calling"}
    /\ fout.clock < MaxTicks
    /\ ~(~fout.aborted /\ fout.clock * TickMs >= fin.timeout)
    /\ ~(fout.download = "inflight" /\ fout.clock * TickMs >= DOWNLOAD_TIMEOUT)
    /\ fout' = [fout EXCEPT !.clock = @ + 1]
    /\ UNCHANGED <<fpc, fin, vendor, cfgMaxRetries, rvars, svars>>

\* setTimeout(() => controller.abort(), timeout): the generateContent call
\* holds the signal and rejects, which callGeminiAPI reports as "Request
\* timed out"; the download holds a signal of its own.
AttemptTimerFires ==
    /\ fpc \in {"downloading", "calling"}
    /\ ~fout.aborted
    /\ fout.clock * TickMs >= fin.timeout
    /\ IF fout.api = "inflight"
       THEN /\ fout' = [fout EXCEPT !.aborted = TRUE, !.api = "aborted",
                                    !.message = <<"R", "e", "q", "u", "e", "s", "t", " ", "t", "i", "m", "e", "d", " ", "o", "u", "t">>]
            /\ fpc' = "thrown"
       ELSE /\ fout' = [fout EXCEPT !.aborted = TRUE]
            /\ UNCHANGED fpc
    /\ UNCHANGED <<fin, vendor, cfgMaxRetries, rvars, svars>>

\* The download ends in time; the generateContent call is made with the
\* attempt's signal and rejects at once when the signal has fired.
DownloadCompletes ==
    /\ fpc = "downloading"
    /\ fout.download = "inflight"
    /\ IF fout.aborted
       THEN /\ fout' = [fout EXCEPT !.download = "done", !.api = "aborted",
                                    !.message = <<"R", "e", "q", "u", "e", "s", "t", " ", "t", "i", "m", "e", "d", " ", "o", "u", "t">>]
            /\ fpc' = "thrown"
       ELSE /\ fout' = [fout EXCEPT !.download = "done", !.api = "inflight"]
            /\ fpc' = "calling"
    /\ UNCHANGED <<fin, vendor, cfgMaxRetries, rvars, svars>>

\* AbortSignal.timeout(DOWNLOAD_TIMEOUT) fires: the download rejects.
DownloadTimesOut ==
    /\ fpc = "downloading"
    /\ fout.download = "inflight"
    /\ fout.clock * TickMs >= DOWNLOAD_TIMEOUT
    /\ fout' = [fout EXCEPT !.download = "timedout",
                   !.message = <<"F", "a", "i", "l", "e", "d", " ", "t", "o", " ", "d", "o", "w", "n", "l", "o", "a", "d", " ", "i", "m", "a", "g", "e", " ", "f", "r", "o", "m", " ", "U", "R", "L", ":", " ">> \o fin.imageData]
    /\ fpc' = "thrown"
    /\ UNCHANGED <<fin, vendor, cfgMaxRetries, rvars, svars>>

\* The generateContent call answers before the signal fires.
ApiResponds ==
    /\ fpc = "calling"
    /\ fout.api = "inflight"
    /\ ~fout.aborted
    /\ fout' = [fout EXCEPT !.api = "done"]
    /\ fpc' = "returned"
    /\ UNCHANGED <<fin, vendor, cfgMaxRetries, rvars, svars>>

NextDownload ==
    \/ AttemptStarts
    \/ Tick
    \/ AttemptTimerFires
    \/ DownloadCompletes
    \/ DownloadTimesOut
    \/ ApiResponds

SpecDownload == InitDownload /\ [][NextDownload]_vars

\* Whether text holds pat somewhere.
Holds(pat, text) == \E i \in 1..Len(text) : IsPrefixAt(pat, text, i)

(***************************************************************************)
(* Claims about withRetry.                                                 *)
(***************************************************************************)

\* The latest invocation of the operation has settled and was handled.
Handled == pc \in {"returned", "thrown", "backoff"}

\* C1: with maxRetries configured as m, 0 included, the operation is invoked
\* at most m + 1 times, and the default of 2 stands in only for a value that
\* is not configured.  this.config.maxRetries || 2 takes a configured 0 for
\* no value.
C1_AttemptsWithinConfigured ==
    (pc # "idle" /\ cfgMaxRetries # NotConfigured)
        => /\ maxRetries = cfgMaxRetries
           /\ calls <= cfgMaxRetries + 1

\* C2: an error whose HTTP status is 400, 401, 403 or 404 is thrown at once
\* and unchanged: no backoff wait follows it and no further attempt.
C2_NonRetryableThrownUnchanged ==
    (Handled /\ event.status \in {400, 401, 403, 404})
        => /\ pc = "thrown"
           /\ outcome.error = Operation(vendor, event).error
           /\ outcome.error.code = "MODEL_API_ERROR"
           /\ outcome.error.details["status"] = Num(event.status)
           /\ calls = attempt + 1
           /\ Len(waits) = attempt

\* A 404 on the second attempt is thrown after the one backoff before it.
C2_Witness ==
    /\ pc = "thrown"
    /\ event.kind = "http"
    /\ event.status = 404
    /\ attempt = 1
    /\ waits = <<1000>>
    /\ calls = 2

\* C4: for every vendor adapter, a final attempt whose request times out
\* makes the engine throw an error of code TIMEOUT_ERROR.  callGeminiAPI turns
\* the abort into a ModelAPIError, which ends as the error of exhaustion.
C4_FinalTimeoutIsTimeoutError ==
    (Handled /\ event.kind = "timeout" /\ event.phase = "fetch"
             /\ attempt = maxRetries)
        => /\ pc = "thrown"
           /\ outcome.error.code = "TIMEOUT_ERROR"

\* C5: a request that times out on an attempt that is not the final one is
\* retried after the backoff wait.  withRetry throws the TimeoutError as soon
\* as the operation fails with an AbortError, whatever the attempt.
C5_NonFinalTimeoutRetried ==
    (Handled /\ event.kind = "timeout" /\ event.phase = "fetch"
             /\ attempt < maxRetries)
        => /\ pc = "backoff"
           /\ Len(waits) = attempt + 1

\* C6: an operation that fails with retryable errors N times and then
\* succeeds was invoked N + 1 times, and the wait after the failure of index k
\* (from 0) was min(1000 * 2^k, 5000) ms.
C6_RetriesThenSuccess ==
    pc = "returned"
        => /\ outcome.tag = "returned"
           /\ outcome.value = Operation(vendor, event)
           /\ outcome.value.tag = "ok"
           /\ calls = failures + 1
           /\ Len(waits) = failures
           /\ \A k \in 0..(failures - 1) :
                 waits[k + 1] = IF 1000 * (2 ^ k) < 5000 THEN 1000 * (2 ^ k)
                                ELSE 5000

\* Four failures, then success: the fourth wait is the cap.
C6_Witness ==
    /\ pc = "returned"
    /\ failures = 4
    /\ calls = 5
    /\ waits = <<1000, 2000, 4000, 5000>>

\* The latest event is a failure withRetry retries: no timeout and no
\* non-retryable status.
RetryableFailure ==
    \/ event.kind \in {"network", "badjson"}
    \/ event.kind = "ok" /\ Operation(vendor, event).tag = "error"
    \/ event.kind = "http" /\ event.status \notin {400, 401, 403, 404}

CredentialValue == <<"=", "a", "b", "c">>

\* C7: when all maxRetries + 1 attempts the configuration allows have failed
\* with retryable errors, withRetry has thrown an error of code
\* MODEL_API_ERROR whose details are the sanitized details of the last
\* attempt's error with that error's message under lastError, and nothing
\* else.  With maxRetries configured as 0 (C1) the engine waits and invokes
\* the operation again after the one attempt allowed has failed.
C7_ExhaustionCarriesLastError ==
    (Handled /\ RetryableFailure
             /\ failures = (IF cfgMaxRetries = NotConfigured THEN 2
                            ELSE cfgMaxRetries) + 1)
        => /\ pc = "thrown"
           /\ \E last \in {Operation(vendor, event).error} :
                 /\ outcome.error.name = "ModelAPIError"
                 /\ outcome.error.code = "MODEL_API_ERROR"
                 /\ outcome.error.message =
                       ModelAPIPrefix \o MsgFailedAfter \o Digits(failures)
                                      \o MsgAttempts
                 /\ outcome.error.details =
                       sanitizeDetails(
                           [(IF last.hasDetails THEN last.details ELSE NoEntries)
                               EXCEPT !["lastError"] = Str(last.message)])
                 /\ \A k \in DetailKeys :
                       outcome.error.details[k].t = "str"
                           => ~Holds(CredentialValue, outcome.error.details[k].v)

(***************************************************************************)
(* Claims about the thinking filter.                                       *)
(***************************************************************************)

\* C3: the content every vendor adapter returns has passed the thinking
\* filter: it is what filterThinkingContent makes of the payload, and a
\* <thinking>...</thinking> block of the payload's answer is not in it.
\* ClaudeAdapter.normalizeResponse returns the joined text blocks as they are.
C3_ReturnedContentFiltered ==
    (fpc = "done" /\ fout.tag = "ok")
        => /\ fout.content = filterThinkingContent(fin, vendor)
           /\ ~HasMatch(THINKING_PATTERNS[1], fout.content)

\* C8: the output of stripThinkingPatterns holds no match of any pattern.
\* The patterns are applied one after the other, once each, so what a later
\* pattern removes can leave a match of an earlier one.
C8_NoPatternLeft ==
    fpc = "done" => \A n \in DOMAIN THINKING_PATTERNS :
                        ~HasMatch(THINKING_PATTERNS[n], fout)

\* C9: with a non-empty reasoning or thinking field, the output of
\* stripThinking is the one of every other envelope of the same content whose
\* reasoning or thinking field is non-empty, and holds no field's text.
C9_FieldTextNotSurfaced ==
    (fpc = "done" /\ (Truthy(fin.reasoning) \/ Truthy(fin.thinking)))
        => /\ \A f \in EnvelopeFields :
                 (Truthy(f[1]) \/ Truthy(f[2]))
                     => stripThinking([content |-> fin.content,
                                       reasoning |-> f[1], thinking |-> f[2]]) = fout
           /\ ~Holds(Secret, fout)
           /\ ~Holds(OtherSecret, fout)

\* A long answer comes back beside a reasoning field, and a short one is
\* replaced beside another reasoning text.
C9_Witness ==
    /\ fpc = "done"
    /\ fin.reasoning = Secret
    /\ fin.thinking = OtherSecret
    /\ fout = ACat \o ACat

\* C10: stripThinking returns the empty string exactly when the stripped
\* content is shorter than 10 characters and a non-empty reasoning or thinking
\* field is present, and the stripped content in every other case.
C10_FailClosed ==
    fpc = "done" =>
        LET stripped == stripThinkingPatterns(fin.content)
            present == \/ fin.reasoning \notin {Undefined, Empty}
                       \/ fin.thinking \notin {Undefined, Empty}
        IN  /\ (Len(stripped) < 10 /\ present) => fout = Empty
            /\ ~(Len(stripped) < 10 /\ present) => fout = stripped

\* The short answer "A cat" is replaced by the empty string beside a
\* reasoning field.
C10_Witness ==
    /\ fpc = "done"
    /\ stripThinkingPatterns(fin.content) = ACat
    /\ fin.reasoning = Secret
    /\ fout = Empty

C12_SerializedErrorMasked ==
    fpc = "responded" =>
        /\ ~Holds(<<"s", "e", "c", "r", "e", "t">>, fout.text.message)
        /\ \A k \in DetailKeys :
              /\ fout.text.details[k].t = "str"
                    => ~Holds(<<"s", "e", "c", "r", "e", "t">>, fout.text.details[k].v)
              /\ fout.text.details[k].t = "arr"
                    => \A n \in DOMAIN fout.text.details[k].v :
                          fout.text.details[k].v[n].t = "str"
                              => ~Holds(<<"s", "e", "c", "r", "e", "t">>, fout.text.details[k].v[n].v)

\* The string the detail map of the error holds where the input held the URL.
C13_StringAt(shape, details) ==
    CASE shape = "top" -> details["endpoint"].v
      [] shape = "array" -> details["errorDetails"].v[2].v
      [] shape = "object" -> details["errorDetails"].v["url"].v
      [] shape = "objectInArray" -> details["errorDetails"].v[1].v["url"].v
      [] shape = "arrayInObject" -> details["errorDetails"].v["urls"].v[1].v
      [] shape = "arrayInArray" -> details["errorDetails"].v[1].v[1].v

\* A credential parameter with a value.
C13_IsCredential(p) ==
    /\ p.value # Empty
    /\ toLowerCase(p.name) \in { <<"k", "e", "y">>, <<"a", "p", "i", "_", "k", "e", "y">>, <<"a", "p", "i", "k", "e", "y">>, <<"t", "o", "k", "e", "n">>,
                                <<"a", "c", "c", "e", "s", "s", "_", "t", "o", "k", "e", "n">>, <<"a", "p", "i", "-", "k", "e", "y">>}

RECURSIVE C14_Alone(_, _, _)
C14_Alone(seen, k, retries) ==
    IF k + 1 > Len(seen) THEN NoOutcome
    ELSE LET res == Operation(vendor, seen[k + 1])
         IN  IF res.tag = "ok" THEN Returned(res)
             ELSE IF res.error.name = "AbortError"
             THEN Thrown(TimeoutError(<<"R", "e", "q", "u", "e", "s", "t", " ", "t", "i", "m", "e", "d", " ", "o", "u", "t", " ", "a", "f", "t", "e", "r", " ", "6", "0", "0", "0", "0", "m", "s">>))
             ELSE IF /\ res.error.name = "ModelAPIError"
                     /\ res.error.details["status"].t = "num"
                     /\ res.error.details["status"].v \in {400, 401, 403, 404}
             THEN Thrown(res.error)
             ELSE IF k = retries THEN Thrown(ExhaustedError(res.error, retries))
             ELSE C14_Alone(seen, k + 1, retries)

\* C14: with several calls in flight on one adapter, the signal of an attempt
\* is aborted by the timer of that attempt only; each call counts its own
\* attempts and keeps the error of its own last failed attempt; and each call
\* has settled as it would have alone on the answers and timer firings it met.
C14_RequestsIndependent ==
    \A q \in Requests :
        /\ reqs[q].signal = "aborted" => reqs[q].timer = "fired"
        /\ reqs[q].pc \in {"returned", "thrown", "backoff"}
              => reqs[q].attempt + 1 = Len(reqs[q].seen)
        /\ reqs[q].pc \in {"thrown", "backoff"}
              => reqs[q].lastError = Operation(vendor, reqs[q].seen[Len(reqs[q].seen)]).error
        /\ reqs[q].pc \in {"returned", "thrown"}
              => reqs[q].outcome = C14_Alone(reqs[q].seen, 0, cfgMaxRetries)
        /\ reqs[q].pc \notin {"returned", "thrown"} => reqs[q].outcome = NoOutcome

\* The timer of call 1 has fired and its attempt has ended in a timeout while
\* call 2, in flight all along, has got its answer on its second attempt.
C14_Witness ==
    /\ reqs[1].pc = "thrown"
    /\ reqs[1].timer = "fired"
    /\ reqs[1].outcome.error.code = "TIMEOUT_ERROR"
    /\ reqs[2].pc = "returned"
    /\ reqs[2].attempt = 1
    /\ reqs[2].timer = "cleared"

(***************************************************************************)
(* Claims about the provider registry and the tool singleton.              *)
(***************************************************************************)

\* C15: every vendor id that was once registered is still registered and maps
\* to the definition first registered under it.
\* register is Map.set: a second definition of an id replaces the first.
C15_FirstDefinitionKept ==
    \A id \in DOMAIN firstRegistered :
        /\ id \in DOMAIN providers
        /\ providers[id] = firstRegistered[id]

\* C16: at most one VisionTool, with its ModelConfig and its adapter, has been
\* constructed; every getVisionTool call that returned has returned it,
\* whatever config it was given, and every analyze call has used its adapter.
C16_OneToolOneAdapter ==
    /\ Len(constructed) <= 1
    /\ toolInstance # NoTool => constructed = <<toolInstance>>
    /\ \A k \in DOMAIN handed :
          /\ constructed # <<>>
          /\ handed[k].tool = constructed[1]
          /\ handed[k].tool.adapter = constructed[1].adapter
          /\ handed[k].tool.modelConfig = constructed[1].modelConfig

\* A first call fails on the environment, a call with a config constructs the
\* tool, and a later call without config and an analyze call get that tool.
C16_Witness ==
    /\ fin.type = "none"
    /\ Len(handed) = 3
    /\ handed[1].arg.type = "claude"
    /\ handed[2].call = "getVisionTool" /\ handed[2].arg = NoConfig
    /\ handed[3].call = "analyze"
    /\ handed[3].tool.adapter = [id |-> 1, type |-> "claude"]

(***************************************************************************)
(* Claims about the normalization of image inputs.                         *)
(***************************************************************************)
\* Whether text ends, in any case of letters, in one of the four extensions.
C17_HasImageExtension(text) ==
    \E e \in { <<".", "j", "p", "g">>, <<".", "j", "p", "e", "g">>, <<".", "p", "n", "g">>, <<".", "w", "e", "b", "p">>} : EndsWith(toLowerCase(text), e)

\* C17: for a valid http(s) URL whose path ends in none of the four extensions,
\* normalize returns the URL itself when VISION_STRICT_URL_VALIDATION is
\* "false", and fails with INVALID_INPUT when it is "true" or not set.
\* The InvalidInputError thrown in strict mode is caught by the catch of
\* normalizeUrlInput, which throws an ImageLoadError in its place.
C17_StrictRejectsAsInvalidInput ==
    (/\ fpc = "done"
     /\ fin.strict \in {Undefined, <<"f", "a", "l", "s", "e">>, <<"t", "r", "u", "e">>}
     /\ detectInputType(fin.input) = "url"
     /\ ParseUrl(fin.input).valid
     /\ ~C17_HasImageExtension(ParseUrl(fin.input).pathname))
    => IF fin.strict = <<"f", "a", "l", "s", "e">>
       THEN fout.tag = "ok" /\ fout.dataUrl = fin.input
       ELSE fout.tag = "error" /\ fout.error.code = "INVALID_INPUT"

\* C18: a local path to a readable, non-empty file whose name ends in none of
\* the four extensions fails with INVALID_INPUT, the details holding the list
\* of the allowed extensions.
\* The InvalidInputError of getMimeTypeFromFileName is caught by the catch of
\* normalizeLocalInput, which throws an ImageLoadError holding the path only.
C18_UnsupportedExtensionInvalidInput ==
    (/\ fpc = "done"
     /\ detectInputType(fin.input) = "local"
     /\ fin.file = "readable"
     /\ ~C17_HasImageExtension(fin.input))
    => /\ fout.tag = "error"
       /\ fout.error.code = "INVALID_INPUT"
       /\ fout.error.details["supportedExtensions"].t = "arr"

\* C19: every input normalized with success has one of the four MIME types.
\* A URL input gets "image/*".
C19_MimeTypeSupported ==
    (fpc = "done" /\ fout.tag = "ok")
    => fout.mimeType \in { <<"i", "m", "a", "g", "e", "/", "j", "p", "e", "g">>, <<"i", "m", "a", "g", "e", "/", "j", "p", "g">>, <<"i", "m", "a", "g", "e", "/", "p", "n", "g">>, <<"i", "m", "a", "g", "e", "/", "w", "e", "b", "p">>}

\* C20: an input that starts with data:image/ and holds ;base64, somewhere is
\* classified base64; any other input that starts with http:// or https:// is
\* classified url; every other input, the empty one included, is classified
\* local.
C20_ClassifiedByPrecedence ==
    fpc = "done" =>
        fout = IF /\ Len(fin) >= 11
                  /\ SubSeq(fin, 1, 11) = <<"d", "a", "t", "a", ":", "i", "m", "a", "g", "e", "/">>
                  /\ \E k \in 1..Len(fin) :
                        k + 7 <= Len(fin) /\ SubSeq(fin, k, k + 7) = <<";", "b", "a", "s", "e", "6", "4", ",">>
               THEN "base64"
               ELSE IF \/ Len(fin) >= 7 /\ SubSeq(fin, 1, 7) = <<"h", "t", "t", "p", ":", "/", "/">>
                       \/ Len(fin) >= 8 /\ SubSeq(fin, 1, 8) = <<"h", "t", "t", "p", "s", ":", "/", "/">>
               THEN "url"
               ELSE "local"

\* An input in capitals that would be a URL in small letters is a local path.
C20_Witness ==
    /\ fpc = "done"
    /\ Len(fin) >= 7
    /\ SubSeq(fin, 1, 7) = <<"H", "T", "T", "P", ":", "/", "/">>
    /\ fout = "local"

\* The MIME type the prefix of a data URL names: the text between "data:" and
\* the first ";" before the first comma, in small letters.
C21_PrefixMime(input) ==
    LET comma == Min({k \in 1..Len(input) : input[k] = ","})
        semis == {k \in 6..(comma - 1) : input[k] = ";"}
        end == IF semis = {} THEN comma ELSE Min(semis)
    IN  toLowerCase(SubSeq(input, 6, end - 1))

\* C21: an input classified base64 normalizes with success, to itself and to
\* the MIME type of its prefix, exactly when that type is one of the four and
\* some text follows the first comma, further commas included; otherwise
\* it fails.
\* normalizeBase64Input requires input.split(",") to have two parts, so a
\* second comma makes it fail.
C21_SplitAtFirstComma ==
    (fpc = "done" /\ detectInputType(fin.input) = "base64")
    => IF /\ C21_PrefixMime(fin.input) \in { <<"i", "m", "a", "g", "e", "/", "j", "p", "e", "g">>, <<"i", "m", "a", "g", "e", "/", "j", "p", "g">>, <<"i", "m", "a", "g", "e", "/", "p", "n", "g">>, <<"i", "m", "a", "g", "e", "/", "w", "e", "b", "p">>}
          /\ Min({k \in 1..Len(fin.input) : fin.input[k] = ","}) < Len(fin.input)
       THEN /\ fout.tag = "ok"
            /\ fout.dataUrl = fin.input
            /\ fout.mimeType = C21_PrefixMime(fin.input)
       ELSE fout.tag = "error"

\* The number the base64 character c stands for.
C22_Index(c) ==
    CHOOSE n \in 0..63 :
        <<"A", "B", "C", "D", "E", "F", "G", "H", "I", "J", "K", "L", "M", "N", "O", "P", "Q", "R", "S", "T", "U", "V", "W", "X", "Y", "Z", "a", "b", "c", "d", "e", "f", "g", "h", "i", "j", "k", "l", "m", "n", "o", "p", "q", "r", "s", "t", "u", "v", "w", "x", "y", "z", "0", "1", "2", "3", "4", "5", "6", "7", "8", "9", "+", "/">>[n + 1] = c

\* The bytes a base64 text decodes to: its characters before the "=" are
\* read as a row of bits, six a character, and every full eight bits of the
\* row are a byte.
C22_Decode(text) ==
    LET chars == SelectSeq(text, LAMBDA c : c # "=")
        bit(i) == (C22_Index(chars[(i \div 6) + 1]) \div (2 ^ (5 - (i % 6)))) % 2
    IN  [j \in 1..((6 * Len(chars)) \div 8) |->
            128 * bit(8 * j - 8) + 64 * bit(8 * j - 7) + 32 * bit(8 * j - 6)
            + 16 * bit(8 * j - 5) + 8 * bit(8 * j - 4) + 4 * bit(8 * j - 3)
            + 2 * bit(8 * j - 2) + bit(8 * j - 1)]

\* The MIME type mapped to the extension a path ends in.
C22_MimeOf(path) ==
    CASE EndsWith(toLowerCase(path), <<".", "p", "n", "g">>) -> <<"i", "m", "a", "g", "e", "/", "p", "n", "g">>
      [] EndsWith(toLowerCase(path), <<".", "w", "e", "b", "p">>) -> <<"i", "m", "a", "g", "e", "/", "w", "e", "b", "p">>
      [] EndsWith(toLowerCase(path), <<".", "j", "p", "g">>) -> <<"i", "m", "a", "g", "e", "/", "j", "p", "e", "g">>
      [] EndsWith(toLowerCase(path), <<".", "j", "p", "e", "g">>) -> <<"i", "m", "a", "g", "e", "/", "j", "p", "e", "g">>

\* C22: a local file with one of the four extensions and at least one byte
\* normalizes to data:<mime>;base64,<payload>, mime being the type mapped to
\* the extension and payload decoding to the bytes of the file.
C22_DataUrlDecodesToFile ==
    (fpc = "done" /\ fin.bytes # <<>> /\ C17_HasImageExtension(fin.input))
    => /\ fout.tag = "ok"
       /\ fout.mimeType = C22_MimeOf(fin.input)
       /\ StartsWith(fout.dataUrl, <<"d", "a", "t", "a", ":">> \o C22_MimeOf(fin.input) \o <<";", "b", "a", "s", "e", "6", "4", ",">>)
       /\ C22_Decode(SubSeq(fout.dataUrl, Len(C22_MimeOf(fin.input)) + 14,
                            Len(fout.dataUrl))) = fin.bytes

\* A file of two bytes that give "+", "/" and a filling "=".
C22_Witness ==
    /\ fpc = "done"
    /\ fin.bytes = <<251, 255>>
    /\ fin.input = <<"/", "t", "m", "p", "/", "a", ".", "J", "P", "E", "G">>
    /\ fout.tag = "ok"
    /\ fout.dataUrl = <<"d", "a", "t", "a", ":", "i", "m", "a", "g", "e", "/", "j", "p", "e", "g", ";", "b", "a", "s", "e", "6", "4", ",", "+", "/", "8", "=">>

(***************************************************************************)
(* Claims about the analyze_image request.                                 *)
(***************************************************************************)
\* The error an analyze_image request fails with: that of the normalization,
\* else that of the prompt, else the one withRetry threw.
C23_Failure ==
    LET image == normalizeImageInput(fin.image, Undefined, fin.file, <<65, 66, 67>>)
        prompt == buildPrompt(fin.template, fin.prompt)
    IN  IF image.tag = "error" THEN image.error
        ELSE IF prompt.tag = "error" THEN prompt.error
        ELSE IF pc = "thrown" THEN outcome.error
        ELSE NoError

\* C23: the response to a request whose normalization, prompt or adapter
\* failed is marked isError and holds message, code, details and timestamp;
\* a VisionMCPError keeps its code and its message, any other error gets the
\* code UNKNOWN_ERROR.
C23_FailureAnsweredAsError ==
    (fpc = "responded" /\ C23_Failure # NoError)
    => /\ fout.tag = "response"
       /\ fout.isError
       /\ DOMAIN fout.text = {"message", "code", "details", "timestamp"}
       /\ IF C23_Failure.name \in {"VisionMCPError", "InvalidInputError",
                                   "ModelConfigError", "ImageLoadError",
                                   "ModelAPIError", "TimeoutError"}
          THEN /\ fout.text.code = C23_Failure.code
               /\ fout.text.message = JsonString(C23_Failure.message)
          ELSE fout.text.code = "UNKNOWN_ERROR"

\* The Error of an unknown template is answered as UNKNOWN_ERROR.
C23_Witness ==
    /\ fpc = "responded"
    /\ fin.template = <<"n", "o", "p", "e">>
    /\ fout.isError
    /\ fout.thrown.name = "Error"
    /\ fout.text.code = "UNKNOWN_ERROR"
    /\ invoked = <<>>

\* C24: the result of a successful analyze call holds the content the adapter
\* returned, filtered of its thinking block; the format asked for, text when
\* none was; the vendor id and the model name of the configuration; the MIME
\* type of the normalized image and the length of its data URL.  The image
\* data:image/png;base64,AAAA with the answer <thinking>x</thinking>A cat
\* gives the content A cat and the image format image/png.
\* ClaudeAdapter.normalizeResponse returns the text blocks as they are, so
\* with the vendor claude the thinking block stays in the content.
C24_FilteredContentAndMetadata ==
    (fpc = "responded" /\ ~fout.isError)
    => LET image == normalizeImageInput(fin.image, Undefined, fin.file, <<65, 66, 67>>)
       IN  /\ fout.result.content = outcome.value.content
           /\ ~Holds(TagOpen, fout.result.content)
           /\ fout.result.format = IF fin.output_format = <<"j", "s", "o", "n">> THEN <<"j", "s", "o", "n">>
                                   ELSE <<"t", "e", "x", "t">>
           /\ fout.result.metadata.modelType = vendor
           /\ fout.result.metadata.modelName = fin.modelName
           /\ fout.result.metadata.imageFormat = image.mimeType
           /\ fout.result.metadata.imageSize = Len(image.dataUrl)
           /\ (/\ fin.image = <<"d", "a", "t", "a", ":", "i", "m", "a", "g", "e", "/", "p", "n", "g", ";", "b", "a", "s", "e", "6", "4", ",", "A", "A", "A", "A">>
               /\ event.payload.parts = << <<"<", "t", "h", "i", "n", "k", "i", "n", "g", ">", "x", "<", "/", "t", "h", "i", "n", "k", "i", "n", "g", ">", "A", " ", "c", "a", "t">> >>)
              => /\ fout.result.content = <<"A", " ", "c", "a", "t">>
                 /\ fout.result.metadata.imageFormat = <<"i", "m", "a", "g", "e", "/", "p", "n", "g">>

C26_NoTextContent(v, payload) ==
    CASE v = "claude" ->
            \A k \in DOMAIN payload.parts : payload.parts[k] \in {Undefined, Empty}
      [] v = "gemini" ->
            \/ ~payload.candidate
            \/ \A k \in DOMAIN payload.parts : payload.parts[k] \in {Undefined, Empty}
      [] OTHER ->
            \/ payload.parts = <<>>
            \/ payload.parts[1] \in {Undefined, Empty}

C27_ShowsEndsOnly(key, masked) ==
    \E a \in 0..4, b \in 0..4 :
        /\ a + b < Len(key)
        /\ masked = SubSeq(key, 1, a) \o [k \in 1..(Len(key) - a - b) |-> "*"]
                       \o SubSeq(key, Len(key) - b + 1, Len(key))

\* C27, as stated: the masked key is never the key; a key of 8 characters or
\* fewer gives ***, a longer key a text of its length that shows at most its
\* first 4 and last 4 characters with an asterisk at least in between;
\* get_config returns the masked key.
\* The key *** and a long key whose middle is made of asterisks are their
\* own masks.
C27_NeverTheKey ==
    fpc \in {"masked", "responded"}
    => /\ fout.apiKey # fin
       /\ Len(fin) <= 8 => fout.apiKey = <<"*", "*", "*">>
       /\ Len(fin) > 8 => Len(fout.apiKey) = Len(fin) /\ C27_ShowsEndsOnly(fin, fout.apiKey)

\* C27, amended: as above, but the masked key is the key itself only when
\* each character it hides is an asterisk already.
C27_HiddenCharactersMasked ==
    fpc \in {"masked", "responded"}
    => /\ Len(fin) <= 8 => fout.apiKey = <<"*", "*", "*">>
       /\ Len(fin) > 8 => Len(fout.apiKey) = Len(fin) /\ C27_ShowsEndsOnly(fin, fout.apiKey)
       /\ fout.apiKey = fin
             => \/ fin = <<"*", "*", "*">>
                \/ /\ Len(fin) > 8
                   /\ \A k \in 5..(Len(fin) - 4) : fin[k] = "*"
       /\ (fpc = "responded" /\ \E k \in DOMAIN fin : fin[k] \notin {"k", "*"})
             => \A f \in {"name", "baseUrl", "apiKey"} : fout[f] # fin

\* get_config on a key of 20 characters shows four at each end.
C27_Witness ==
    /\ fpc = "responded"
    /\ fin = <<"s", "k", "-", "0", "1", "2", "3", "4", "5", "6", "7", "8", "9", "a", "b", "c", "d", "e", "f", "g">>
    /\ fout.apiKey = <<"s", "k", "-", "0", "*", "*", "*", "*", "*", "*", "*", "*", "*", "*", "*", "*", "d", "e", "f", "g">>

(***************************************************************************)
(* Claims about the timeout of a Gemini attempt.                           *)
(***************************************************************************)
\* C28: once the timeout of an attempt has expired no outbound call of the
\* attempt is in flight, the image download included, and the attempt does
\* not live past its timeout.
\* The download is made with a signal of its own of DOWNLOAD_TIMEOUT.
C28_TimeoutCancelsEveryCall ==
    fpc \in {"downloading", "calling"}
    => /\ ~fout.aborted
       /\ fout.clock * TickMs <= fin.timeout

\* C29: the adapter is invoked at most once in an analyze call, and only
\* after the image was normalized and the prompt composed; when the
\* normalization fails or the template id is not one of the templates the
\* adapter is not invoked and no attempt or backoff wait is made.
\* The template id "constructor" names a member every object inherits.
C29_InvokedOnlyAfterBothSucceed ==
    LET normalized == normalizeImageInput(fin.image, Undefined, fin.file, <<65, 66, 67>>)
        unknown == Truthy(fin.template) /\ fin.template \notin SYSTEM_PROMPT_TEMPLATES
    IN  /\ Len(invoked) <= 1
        /\ (normalized.tag = "error" \/ unknown)
              => invoked = <<>> /\ calls = 0 /\ waits = <<>>
        /\ (normalized.tag = "error" \/ unknown) /\ fpc = "responded"
              => fout.isError

(***************************************************************************)
(* Liveness of withRetry.                                                  *)
(***************************************************************************)
\* C30: when every invocation of the operation settles and every backoff
\* wait elapses, a withRetry call that was entered settles: it returns or
\* throws after at most maxRetries + 1 invocations; an invocation is made
\* only when the one before has failed, and none is made once the call has
\* settled.
C30_EveryCallSettles ==
    /\ (pc # "idle") ~> (pc \in {"returned", "thrown"})
    /\ [](pc # "idle" => /\ calls <= maxRetries + 1
                         /\ calls = attempt + 1
                         /\ failures = IF pc = "calling" THEN calls - 1
                                       ELSE IF pc = "returned" THEN calls - 1
                                       ELSE calls)
    /\ [][/\ calls' # calls => pc \in {"idle", "backoff"} /\ pc' = "calling"
          /\ pc \in {"returned", "thrown"} => UNCHANGED <<pc, calls, outcome>>]_vars

\* A call settled by throwing after the last of five invocations.
C30_Witness ==
    /\ pc = "thrown"
    /\ maxRetries = MaxCfgRetries
    /\ calls = maxRetries + 1
    /\ failures = calls
    /\ Len(waits) = maxRetries

====
